---- MODULE Spec2Model ----
(***************************************************************************)
(* A model of the code-review orchestrator (.windsurf/review): the bounded *)
(* concurrency limiter (components/utils/concurrency.js), the lint batch   *)
(* runner (components/per-file/run-eslint.js) and the merge/report stage   *)
(* of main() (code-review.js).                                             *)
(***************************************************************************)
EXTENDS Integers, Sequences, FiniteSets, TLC

\* ------------------------------------------------------------------ bounds
MaxItems == 3
MaxConcurrency == 2
\* files handed to one runEslintBatch call
MaxLintFiles == 3
\* SUB_BATCH on win32 (60 in the source), scaled down so that sub-batching happens
SubBatchWin == 2

ItemValues == {"a.ts", "b.ts"}

\* reviewable files of the repository, in discovery order
FilePool == <<"app/a.ts", "lib/b.ts", "hooks/c.ts", "types/t.ts", "lib/e.ts">>

VARIABLES
  \* createLimiter / mapLimit
  items, concurrency, active, queue, pcJob, settled, mapResults,
  startOrder, settleOrder, microtasks, addPromise, allPromise, firstError,
  caller, nextAdd,
  \* runEslintBatch
  ebFiles, ebWin, ebSubsets, ebOuts, ebPc, ebResult,
  \* main of code-review.js
  rvPc, rvIn, rvDev, rvTools, rvLint, rvWarnings, rvResults, rvAgg,
  rvReport, rvExit, rvStarted, rvStderr,
  \* file reads of one run: fs-utils.js and the worker of knip.js
  fsEnv, fsFiles, fsKnip, fsDisk, fsCache, fsChanges, fsPc, fsSeen,
  fsAutofix, fsOrig, fsToolSeen,
  \* the report file: writeJson of fs-utils.js and a reader of the path
  rfData, rfFile, rfPc, rfCount, rfRead,
  \* the loop of analyzeComments over the lines of one file
  caLines, caPos, caInJsDoc, caInMultiLine, caViolations

limVars == <<items, concurrency, active, queue, pcJob, settled, mapResults,
             startOrder, settleOrder, microtasks, addPromise, allPromise,
             firstError, caller, nextAdd>>

ebVars == <<ebFiles, ebWin, ebSubsets, ebOuts, ebPc, ebResult>>

rvVars == <<rvPc, rvIn, rvDev, rvTools, rvLint, rvWarnings, rvResults, rvAgg,
            rvReport, rvExit, rvStarted, rvStderr>>

fsVars == <<fsEnv, fsFiles, fsKnip, fsDisk, fsCache, fsChanges, fsPc, fsSeen,
            fsAutofix, fsOrig, fsToolSeen>>

\* the utility components, which the limiter, the lint batch and main's
\* control flow leave alone
rfVars == <<rfData, rfFile, rfPc, rfCount, rfRead>>

caVars == <<caLines, caPos, caInJsDoc, caInMultiLine, caViolations>>

utilVars == <<fsVars, rfVars, caVars>>

vars == <<limVars, ebVars, rvVars, utilVars>>

\* the part of the state an operation of another component leaves alone
IdleLimiter ==
  /\ items = <<>>
  /\ concurrency = 1
  /\ active = 0
  /\ queue = <<>>
  /\ pcJob = <<>>
  /\ settled = <<>>
  /\ mapResults = <<>>
  /\ startOrder = <<>>
  /\ settleOrder = <<>>
  /\ microtasks = <<>>
  /\ addPromise = <<>>
  /\ allPromise = "none"
  /\ firstError = 0
  /\ caller = [kind |-> "pending", value |-> <<>>, error |-> 0]
  /\ nextAdd = 1

IdleEslint ==
  /\ ebFiles = <<>>
  /\ ebWin = FALSE
  /\ ebSubsets = <<>>
  /\ ebOuts = <<>>
  /\ ebPc = "idle"
  /\ ebResult = [kind |-> "none"]

\* main has not been entered
NoReport == [written |-> FALSE]

IdleReview ==
  /\ rvPc = "idle"
  /\ rvIn = <<>>
  /\ rvDev = 0
  /\ rvTools = <<>>
  /\ rvLint = <<>>
  /\ rvWarnings = [declared |-> FALSE, list |-> <<>>]
  /\ rvResults = <<>>
  /\ rvAgg = <<>>
  /\ rvReport = NoReport
  /\ rvExit = -1
  /\ rvStarted = {}
  /\ rvStderr = <<>>

\* the autofix record of main: the step is off and has counted nothing
NoAutofix == [enabled |-> FALSE, fixed |-> {}, errors |-> 0, threw |-> FALSE]

IdleFs ==
  /\ fsAutofix = NoAutofix
  /\ fsOrig = <<>>
  /\ fsToolSeen = <<>>
  /\ fsEnv = "unset"
  /\ fsFiles = <<>>
  /\ fsKnip = <<>>
  /\ fsDisk = <<>>
  /\ fsCache = <<>>
  /\ fsChanges = 0
  /\ fsPc = [phase |-> "idle"]
  /\ fsSeen = <<>>

\* a path with no file
NoFile == [exists |-> FALSE]

IdleRf ==
  /\ rfData = <<>>
  /\ rfFile = NoFile
  /\ rfPc = "idle"
  /\ rfCount = 0
  /\ rfRead = NoFile

IdleCa ==
  /\ caLines = <<>>
  /\ caPos = 0
  /\ caInJsDoc = FALSE
  /\ caInMultiLine = FALSE
  /\ caViolations = <<>>

IdleUtil ==
  /\ IdleFs
  /\ IdleRf
  /\ IdleCa

\* ------------------------------------------------------------ the limiter
Idx == 1..Len(items)

\* an array slot that was never assigned (new Array(n))
Unset == <<"empty">>

\* the value the mapper produces for an item
mapper(item, idx) == <<"mapped", item, idx>>

\* results.push(value): the slot is the completion rank, not the index
StoreResultPush(res, idx, v) ==
  LET free == {j \in DOMAIN res : res[j] = Unset}
      k == CHOOSE j \in free : \A m \in free : j <= m
  IN [res EXCEPT ![k] = v]

\* results[idx] = await mapper(item, idx)
StoreResult(res, idx, v) == [res EXCEPT ![idx] = v]

\* runNext without the `active >= concurrency` early return
runNextUnbounded(a, q, pj, mt) ==
  IF q = <<>> THEN [active |-> a, queue |-> q, pcJob |-> pj, microtasks |-> mt]
  ELSE [active |-> a + 1, queue |-> Tail(q),
        pcJob |-> [pj EXCEPT ![Head(q)] = "scheduled"],
        microtasks |-> Append(mt, <<"fn", Head(q)>>)]

\* runNext that takes the job added last (queue.pop() instead of shift())
runNextLifo(a, q, pj, mt) ==
  IF a >= concurrency THEN [active |-> a, queue |-> q, pcJob |-> pj, microtasks |-> mt]
  ELSE IF q = <<>> THEN [active |-> a, queue |-> q, pcJob |-> pj, microtasks |-> mt]
  ELSE [active |-> a + 1, queue |-> SubSeq(q, 1, Len(q) - 1),
        pcJob |-> [pj EXCEPT ![q[Len(q)]] = "scheduled"],
        microtasks |-> Append(mt, <<"fn", q[Len(q)]>>)]

\* runNext: start the queue's head if a slot is free
runNext(a, q, pj, mt) ==
  IF a >= concurrency THEN [active |-> a, queue |-> q, pcJob |-> pj, microtasks |-> mt]
  ELSE IF q = <<>> THEN [active |-> a, queue |-> q, pcJob |-> pj, microtasks |-> mt]
  ELSE [active |-> a + 1, queue |-> Tail(q),
        pcJob |-> [pj EXCEPT ![Head(q)] = "scheduled"],
        microtasks |-> Append(mt, <<"fn", Head(q)>>)]

InitLimiter ==
  /\ IdleUtil
  /\ \E n \in 0..MaxItems : items \in [1..n -> ItemValues]
  /\ concurrency \in 1..MaxConcurrency
  /\ active = 0
  /\ queue = <<>>
  /\ pcJob = [i \in Idx |-> "new"]
  /\ settled = [i \in Idx |-> "none"]
  /\ mapResults = [i \in Idx |-> Unset]
  /\ startOrder = <<>>
  /\ settleOrder = <<>>
  /\ microtasks = <<>>
  /\ addPromise = [i \in Idx |-> "none"]
  /\ allPromise = "none"
  /\ firstError = 0
  /\ caller = [kind |-> "pending", value |-> <<>>, error |-> 0]
  /\ nextAdd = 1
  /\ IdleEslint
  /\ IdleReview

\* limiter.add(fn), called for every item by items.map before anything else runs
Add(i) ==
  /\ allPromise = "none"
  /\ nextAdd = i
  /\ i \in Idx
  /\ LET r == runNext(active, Append(queue, i), [pcJob EXCEPT ![i] = "queued"], microtasks)
     IN /\ active' = r.active
        /\ queue' = r.queue
        /\ pcJob' = r.pcJob
        /\ microtasks' = r.microtasks
  /\ addPromise' = [addPromise EXCEPT ![i] = "pending"]
  /\ nextAdd' = i + 1
  /\ UNCHANGED ebVars
  /\ UNCHANGED <<rvVars, utilVars>>
  /\ UNCHANGED <<items, concurrency, settled, mapResults, startOrder, settleOrder,
                 allPromise, firstError, caller>>

\* await Promise.all(...): the synchronous part of mapLimit ends
AwaitAll ==
  /\ allPromise = "none"
  /\ nextAdd = Len(items) + 1
  /\ allPromise' = IF Len(items) = 0 THEN "resolved" ELSE "pending"
  /\ UNCHANGED ebVars
  /\ UNCHANGED <<rvVars, utilVars>>
  /\ UNCHANGED <<items, concurrency, active, queue, pcJob, settled, mapResults,
                 startOrder, settleOrder, microtasks, addPromise, firstError,
                 caller, nextAdd>>

\* Promise.resolve().then(job.fn): the job's function is invoked
StartFn ==
  /\ allPromise # "none"
  /\ microtasks # <<>>
  /\ Head(microtasks)[1] = "fn"
  /\ LET i == Head(microtasks)[2]
     IN /\ pcJob' = [pcJob EXCEPT ![i] = "running"]
        /\ startOrder' = Append(startOrder, i)
  /\ microtasks' = Tail(microtasks)
  /\ UNCHANGED ebVars
  /\ UNCHANGED <<rvVars, utilVars>>
  /\ UNCHANGED <<items, concurrency, active, queue, settled, mapResults, settleOrder,
                 addPromise, allPromise, firstError, caller, nextAdd>>

\* the mapper's promise settles; on success the result is stored
Settle(i, o) ==
  /\ i \in Idx
  /\ pcJob[i] = "running"
  /\ settled' = [settled EXCEPT ![i] = o]
  /\ mapResults' = IF o = "ok" THEN StoreResult(mapResults, i, mapper(items[i], i))
                   ELSE mapResults
  /\ pcJob' = [pcJob EXCEPT ![i] = "settled"]
  /\ settleOrder' = Append(settleOrder, i)
  /\ microtasks' = Append(microtasks, <<"notify", i>>)
  /\ UNCHANGED ebVars
  /\ UNCHANGED <<rvVars, utilVars>>
  /\ UNCHANGED <<items, concurrency, active, queue, startOrder, addPromise,
                 allPromise, firstError, caller, nextAdd>>

\* .then(res => job.resolve(res)).catch(err => job.reject(err)), seen by Promise.all
Notify ==
  /\ microtasks # <<>>
  /\ Head(microtasks)[1] = "notify"
  /\ LET i == Head(microtasks)[2]
         ap == [addPromise EXCEPT ![i] = IF settled[i] = "ok" THEN "resolved" ELSE "rejected"]
     IN /\ addPromise' = ap
        /\ pcJob' = [pcJob EXCEPT ![i] = "notified"]
        /\ microtasks' = Append(Tail(microtasks), <<"finally", i>>)
        /\ IF allPromise = "pending" /\ settled[i] = "err"
           THEN allPromise' = "rejected" /\ firstError' = i
           ELSE IF allPromise = "pending" /\ \A j \in Idx : ap[j] = "resolved"
           THEN allPromise' = "resolved" /\ firstError' = firstError
           ELSE UNCHANGED <<allPromise, firstError>>
  /\ UNCHANGED ebVars
  /\ UNCHANGED <<rvVars, utilVars>>
  /\ UNCHANGED <<items, concurrency, active, queue, settled, mapResults, startOrder,
                 settleOrder, caller, nextAdd>>

\* .finally that keeps the slot when the job failed
FinallyKeepSlotOnError ==
  /\ microtasks # <<>>
  /\ Head(microtasks)[1] = "finally"
  /\ LET i == Head(microtasks)[2]
         r == IF settled[i] = "err"
              THEN [active |-> active, queue |-> queue,
                    pcJob |-> [pcJob EXCEPT ![i] = "done"], microtasks |-> Tail(microtasks)]
              ELSE runNext(active - 1, queue, [pcJob EXCEPT ![i] = "done"], Tail(microtasks))
     IN /\ active' = r.active
        /\ queue' = r.queue
        /\ pcJob' = r.pcJob
        /\ microtasks' = r.microtasks
  /\ UNCHANGED ebVars
  /\ UNCHANGED <<rvVars, utilVars>>
  /\ UNCHANGED <<items, concurrency, settled, mapResults, startOrder, settleOrder,
                 addPromise, allPromise, firstError, caller, nextAdd>>

\* .finally(() => { active--; runNext(); })
Finally ==
  /\ microtasks # <<>>
  /\ Head(microtasks)[1] = "finally"
  /\ LET i == Head(microtasks)[2]
         r == runNext(active - 1, queue, [pcJob EXCEPT ![i] = "done"], Tail(microtasks))
     IN /\ active' = r.active
        /\ queue' = r.queue
        /\ pcJob' = r.pcJob
        /\ microtasks' = r.microtasks
  /\ UNCHANGED ebVars
  /\ UNCHANGED <<rvVars, utilVars>>
  /\ UNCHANGED <<items, concurrency, settled, mapResults, startOrder, settleOrder,
                 addPromise, allPromise, firstError, caller, nextAdd>>

\* the await in mapLimit resumes with the last rejection instead of the first
ResumeLastError ==
  /\ allPromise \in {"resolved", "rejected"}
  /\ caller.kind = "pending"
  /\ caller' = IF allPromise = "resolved"
               THEN [kind |-> "value", value |-> mapResults, error |-> 0]
               ELSE [kind |-> "error", value |-> <<>>,
                     error |-> settleOrder[Len(settleOrder)]]
  /\ UNCHANGED ebVars
  /\ UNCHANGED <<rvVars, utilVars>>
  /\ UNCHANGED <<items, concurrency, active, queue, pcJob, settled, mapResults,
                 startOrder, settleOrder, microtasks, addPromise, allPromise,
                 firstError, nextAdd>>

\* the await in mapLimit resumes: return results, or throw the rejection
Resume ==
  /\ allPromise \in {"resolved", "rejected"}
  /\ caller.kind = "pending"
  /\ caller' = IF allPromise = "resolved"
               THEN [kind |-> "value", value |-> mapResults, error |-> 0]
               ELSE [kind |-> "error", value |-> <<>>, error |-> firstError]
  /\ UNCHANGED ebVars
  /\ UNCHANGED <<rvVars, utilVars>>
  /\ UNCHANGED <<items, concurrency, active, queue, pcJob, settled, mapResults,
                 startOrder, settleOrder, microtasks, addPromise, allPromise,
                 firstError, nextAdd>>

NextLimiter ==
  \/ \E i \in Idx : Add(i)
  \/ AwaitAll
  \/ StartFn
  \/ \E i \in Idx, o \in {"ok", "err"} : Settle(i, o)
  \/ Notify
  \/ Finally
  \/ Resume

SpecLimiter == InitLimiter /\ [][NextLimiter]_vars

\* the event loop runs every pending microtask and every mapper settles
SpecLimiterFair == InitLimiter /\ [][NextLimiter]_vars /\ WF_vars(NextLimiter)

\* ------------------------------------------------- claims on the limiter
Running == {i \in Idx : pcJob[i] = "running"}

\* position of job i in a sequence of job indices (0 when absent)
Position(seq, i) ==
  IF \E k \in 1..Len(seq) : seq[k] = i
  THEN CHOOSE k \in 1..Len(seq) : seq[k] = i
  ELSE 0

\* nothing is left to run: the synchronous part is over, no microtask is
\* pending and no mapper is still running
Quiescent == allPromise # "none" /\ microtasks = <<>> /\ Running = {}

\* C3: with bound N >= 1 the number of tasks started and not yet settled never
\* exceeds N, and the active counter never goes below 0.
C3_ConcurrencyBound ==
  /\ Cardinality(Running) <= concurrency
  /\ active >= 0

\* C3 witness: the bound is reached after an earlier task already finished.
C3_Witness ==
  /\ concurrency >= 2
  /\ Cardinality(Running) = concurrency
  /\ \E i \in Idx : pcJob[i] = "done"

\* C4: when mapLimit resolves, results[i] is the mapper's value for items[i],
\* for every index i, whatever the completion order.
C4_ResultsInInputOrder ==
  caller.kind = "value" =>
    /\ DOMAIN caller.value = Idx
    /\ \A i \in Idx : caller.value[i] = mapper(items[i], i)

\* C4 witness: mapLimit resolved although the tasks completed out of start order.
C4_Witness ==
  /\ caller.kind = "value"
  /\ Len(items) >= 2
  /\ items[1] # items[2]
  /\ settleOrder # startOrder

\* C5: a rejected task releases its slot and never cancels or skips a sibling:
\* once nothing is left to run, every submitted task has run to completion,
\* also when some task rejected.
C5_NoSiblingSkipped ==
  (Quiescent /\ \E i \in Idx : settled[i] = "err") =>
    /\ \A j \in Idx : pcJob[j] = "done"
    /\ queue = <<>>
    /\ active = 0

\* C5 witness: with one slot, the first task rejected while the second was
\* still queued, and the second then ran to successful completion.
C5_Witness ==
  /\ concurrency = 1
  /\ Len(items) >= 2
  /\ settled[1] = "err"
  /\ settled[2] = "ok"
  /\ pcJob[2] = "done"

\* C6 (as claimed): when a mapper rejects, the results already computed for the
\* items that completed successfully remain available to the caller.
C6_ResultsSurviveRejection ==
  caller.kind = "error" =>
    \A j \in Idx : settled[j] = "ok" =>
      (j \in DOMAIN caller.value /\ caller.value[j] = mapper(items[j], j))

\* C6 (amended): when a mapper rejects, mapLimit rejects with the first
\* rejection in settlement order and hands the caller nothing else: no result
\* array is returned.
C6_FirstErrorOnly ==
  caller.kind = "error" =>
    /\ caller.value = <<>>
    /\ caller.error \in Idx
    /\ settled[caller.error] = "err"
    /\ \A j \in Idx : settled[j] = "err" =>
         Position(settleOrder, caller.error) <= Position(settleOrder, j)

\* C6 witness: the caller got the error after another item had completed
\* successfully and a later item had rejected as well.
C6_Witness ==
  /\ caller.kind = "error"
  /\ \E j \in Idx : /\ settled[j] = "ok"
                    /\ Position(settleOrder, j) < Position(settleOrder, caller.error)
  /\ \E j \in Idx : /\ settled[j] = "err"
                    /\ Position(settleOrder, j) > Position(settleOrder, caller.error)

\* --------------------------------------------------------- runEslintBatch
\* an empty map {} and map helpers (a map is a function on its keys)
EmptyMap == <<>>

MapMerge(a, b) ==
  [k \in DOMAIN a \cup DOMAIN b |-> IF k \in DOMAIN b THEN b[k] ELSE a[k]]

\* ESLint messages of one file entry, as printed by --format json
ErrMsg == [severity |-> 2, ruleId |-> "no-var"]
WarnMsg == [severity |-> 1, ruleId |-> "no-console"]
MessageLists == {<<>>, <<ErrMsg>>, <<WarnMsg>>, <<ErrMsg, WarnMsg>>}

IsErr(m) == m.severity = 2
IsWarn(m) == m.severity = 1
ToEntry(m) == [rule |-> m.ruleId]

Entries(msgs) == [k \in 1..Len(msgs) |-> ToEntry(msgs[k])]

\* what a file entry of the array becomes in the map
EntryValue(item) ==
  [errors |-> Entries(SelectSeq(item.messages, IsErr)),
   warnings |-> Entries(SelectSeq(item.messages, IsWarn))]

\* the standard output of a subprocess: nothing, text that is not JSON, JSON
\* that is not an array, an array holding a non-object, or an array of entries
StdoutEmpty == [kind |-> "empty", entries |-> <<>>]
StdoutGarbage == [kind |-> "garbage", entries |-> <<>>]
StdoutObject == [kind |-> "object", entries |-> <<>>]
StdoutNullItem == [kind |-> "arrayWithNull", entries |-> <<>>]

\* every array ESLint can print for a subset: each file left out or reported
\* with some list of messages, in the subset's order
RECURSIVE EntryLists(_)
EntryLists(files) ==
  IF files = <<>> THEN {<<>>}
  ELSE LET rest == EntryLists(Tail(files))
       IN rest \cup
          {<<[filePath |-> Head(files), messages |-> ms]>> \o r :
             ms \in MessageLists, r \in rest}

Stdouts(files) ==
  {StdoutEmpty, StdoutGarbage, StdoutObject, StdoutNullItem}
    \cup {[kind |-> "array", entries |-> es] : es \in EntryLists(files)}

\* how `npx eslint` can end for a subset of files
Outcomes(files) ==
  {[exit |-> e, stdout |-> so, stderr |-> se] :
     e \in {0, 1, 2}, so \in Stdouts(files), se \in {"", "Oops! Something went wrong"}}

ParseOk(m) == [threw |-> FALSE, map |-> m]
ParseThrew == [threw |-> TRUE, map |-> EmptyMap]

\* parseEslintJson: a JSON.parse failure or a non-array value becomes []
parseEslintJson(raw) ==
  IF raw.kind = "arrayWithNull" THEN ParseThrew
  ELSE LET arr == IF raw.kind = "array" THEN raw.entries ELSE <<>>
       IN ParseOk([f \in {arr[k].filePath : k \in 1..Len(arr)} |->
            LET last == CHOOSE k \in 1..Len(arr) :
                          /\ arr[k].filePath = f
                          /\ \A m \in 1..Len(arr) : arr[m].filePath = f => m <= k
            IN EntryValue(arr[last])])

OnceOk(m) == [ok |-> TRUE, map |-> m]
OnceFailed == [ok |-> FALSE, map |-> EmptyMap]

\* a runOnce that takes every non-zero exit as a failure of the sub-batch
runOnceExitFatal(o) ==
  IF o.exit = 0 /\ o.stderr = ""
  THEN LET p == parseEslintJson(IF o.stdout.kind = "empty"
                                THEN [kind |-> "array", entries |-> <<>>]
                                ELSE o.stdout)
       IN IF p.threw THEN OnceFailed ELSE OnceOk(p.map)
  ELSE OnceFailed

\* runOnce: one ESLint invocation for a subset of files
runOnce(o) ==
  IF o.exit = 0
  THEN IF o.stderr # "" THEN OnceFailed
       ELSE LET p == parseEslintJson(IF o.stdout.kind = "empty"
                                     THEN [kind |-> "array", entries |-> <<>>]
                                     ELSE o.stdout)
            IN IF p.threw THEN OnceFailed ELSE OnceOk(p.map)
  ELSE IF o.stdout.kind # "empty"
       THEN LET p == parseEslintJson(o.stdout)
            IN IF p.threw THEN OnceFailed ELSE OnceOk(p.map)
       ELSE OnceFailed

\* files.slice(i, i + SUB_BATCH) for i = 0, SUB_BATCH, ...
RECURSIVE Slices(_, _)
Slices(files, size) ==
  IF files = <<>> THEN <<>>
  ELSE IF Len(files) <= size THEN <<files>>
  ELSE <<SubSeq(files, 1, size)>> \o Slices(SubSeq(files, size + 1, Len(files)), size)

\* SUB_BATCH = isWin ? 60 : files.length
SUB_BATCH(isWin, files) == IF isWin THEN SubBatchWin ELSE Len(files)

RECURSIVE MergeMaps(_)
MergeMaps(maps) ==
  IF maps = <<>> THEN EmptyMap
  ELSE MapMerge(MergeMaps(SubSeq(maps, 1, Len(maps) - 1)), maps[Len(maps)])

BatchReturned(m) == [kind |-> "returned", map |-> m]
BatchThrew == [kind |-> "threw", map |-> EmptyMap]

\* runEslintBatch, given how each sub-batch's subprocess ended
runEslintBatch(files, outs, isWin) ==
  IF files = <<>> THEN BatchReturned(EmptyMap)
  ELSE IF \E k \in 1..Len(outs) : ~runOnce(outs[k]).ok THEN BatchThrew
  ELSE BatchReturned(MergeMaps([k \in 1..Len(outs) |-> runOnce(outs[k]).map]))

NotRun == [exit |-> -1, stdout |-> StdoutEmpty, stderr |-> ""]

InitEslint ==
  /\ IdleUtil
  /\ IdleLimiter
  /\ IdleReview
  /\ \E n \in 0..MaxLintFiles : ebFiles = SubSeq(FilePool, 1, n)
  /\ ebWin \in BOOLEAN
  /\ ebSubsets = <<>>
  /\ ebOuts = <<>>
  /\ ebPc = "called"
  /\ ebResult = [kind |-> "none"]

\* runEslintBatch up to the first await: return {} for no files, else start
\* one subprocess per sub-batch
EbStart ==
  /\ ebPc = "called"
  /\ IF ebFiles = <<>>
     THEN /\ ebPc' = "done"
          /\ ebResult' = runEslintBatch(ebFiles, <<>>, ebWin)
          /\ UNCHANGED <<ebSubsets, ebOuts>>
     ELSE /\ ebPc' = "running"
          /\ ebSubsets' = Slices(ebFiles, SUB_BATCH(ebWin, ebFiles))
          /\ ebOuts' = [k \in 1..Len(Slices(ebFiles, SUB_BATCH(ebWin, ebFiles))) |-> NotRun]
          /\ UNCHANGED ebResult
  /\ UNCHANGED <<ebFiles, ebWin>>
  /\ UNCHANGED limVars
  /\ UNCHANGED <<rvVars, utilVars>>

\* the subprocess of sub-batch k ends
EbOnceDone(k, o) ==
  /\ ebPc = "running"
  /\ k \in 1..Len(ebSubsets)
  /\ ebOuts[k] = NotRun
  /\ o \in Outcomes(ebSubsets[k])
  /\ ebOuts' = [ebOuts EXCEPT ![k] = o]
  /\ UNCHANGED <<ebFiles, ebWin, ebSubsets, ebPc, ebResult>>
  /\ UNCHANGED limVars
  /\ UNCHANGED <<rvVars, utilVars>>

\* the await (of runOnce, or of Promise.all over the sub-batches) resumes:
\* on the first failed sub-batch, or once every sub-batch has ended
EbSettle ==
  /\ ebPc = "running"
  /\ LET ended == {k \in 1..Len(ebOuts) : ebOuts[k] # NotRun}
         endedOuts == [k \in 1..Len(ebOuts) |-> ebOuts[k]]
     IN /\ \/ ended = 1..Len(ebOuts)
           \/ \E k \in ended : ~runOnce(ebOuts[k]).ok
        /\ ebResult' = IF \E k \in ended : ~runOnce(ebOuts[k]).ok
                       THEN BatchThrew
                       ELSE runEslintBatch(ebFiles, endedOuts, ebWin)
  /\ ebPc' = "done"
  /\ UNCHANGED <<ebFiles, ebWin, ebSubsets, ebOuts>>
  /\ UNCHANGED limVars
  /\ UNCHANGED <<rvVars, utilVars>>

NextEslint ==
  \/ EbStart
  \/ \E k \in 1..MaxLintFiles : \E o \in Outcomes(IF k \in 1..Len(ebSubsets) THEN ebSubsets[k] ELSE <<>>) : EbOnceDone(k, o)
  \/ EbSettle

SpecEslint == InitEslint /\ [][NextEslint]_vars

\* ------------------------------------------------ claims on the lint step
\* a sub-batch whose subprocess exited non-zero with non-empty standard output
\* that is not a JSON array
BadOutput(o) ==
  /\ o # NotRun
  /\ o.exit # 0
  /\ o.stdout.kind \in {"garbage", "object"}

\* C10: when a lint subprocess exits non-zero and its standard output is
\* non-empty but not a valid JSON array, runEslintBatch rejects; it never
\* returns a map as if the step had succeeded.
C10_UnparsableOutputIsHardFailure ==
  (ebPc = "done" /\ \E k \in 1..Len(ebOuts) : BadOutput(ebOuts[k])) =>
    ebResult.kind = "threw"

\* ------------------------------------------------------ code-review.js main
\* analyzed files per run, deviations of the inputs from a clean repository,
\* and CHUNK_SIZE (200 in the source) scaled down so that chunking happens
MaxFiles == 2
MaxDeviations == 2
ChunkSize == 1

ROOT_DIR == "/repo"

\* path.join(ROOT_DIR, fp)
AbsPath(rel) == ROOT_DIR \o "/" \o rel

\* path.relative(ROOT_DIR, abs) || p, for paths inside the repository
toRepoRelative(p) ==
  LET n == Len(ROOT_DIR) + 1
  IN IF Len(p) > n /\ SubSeq(p, 1, n) = ROOT_DIR \o "/"
     THEN SubSeq(p, n + 1, Len(p))
     ELSE p

\* a file of the repository that is not among the analyzed files
OtherFile == "lib/e.ts"

\* String.prototype.includes
Includes(str, sub) ==
  \E i \in 1..(Len(str) - Len(sub) + 1) : SubSeq(str, i, i + Len(sub) - 1) = sub

LastSlash(p) ==
  LET at == {i \in 1..Len(p) : SubSeq(p, i, i) = "/"}
  IN IF at = {} THEN 0 ELSE CHOOSE i \in at : \A k \in at : k <= i

\* path.dirname and path.basename
DirName(p) == IF LastSlash(p) <= 1 THEN "." ELSE SubSeq(p, 1, LastSlash(p) - 1)
BaseName(p) == SubSeq(p, LastSlash(p) + 1, Len(p))

FILE_SIZE_LIMITS ==
  [components |-> 150, hooks |-> 100, types |-> 100, utils |-> 50,
   routes |-> 100, services |-> 100, repositories |-> 100]

getFileType(filePath) ==
  LET fileName == BaseName(filePath)
      dirName == DirName(filePath)
  IN IF Includes(dirName, "components") THEN "components"
     ELSE IF Includes(dirName, "hooks") THEN "hooks"
     ELSE IF Includes(dirName, "types") THEN "types"
     ELSE IF Includes(dirName, "services") THEN "services"
     ELSE IF Includes(dirName, "repositories") THEN "repositories"
     ELSE IF Includes(dirName, "app") /\ Includes(fileName, "route") THEN "routes"
     ELSE IF Includes(dirName, "lib") \/ Includes(dirName, "utils") THEN "utils"
     ELSE "components"

Status(failed) == IF failed THEN "FAIL" ELSE "PASS"

\* what the heuristic analyzers see of a file: its line count, the lines
\* matching each analyzer's patterns, and the analyzers whose body raises an
\* exception on this file
CleanContent ==
  [lines |-> 10, commentLines |-> <<>>, consoleLines |-> <<>>,
   untypedFunctions |-> <<>>, fallbackLines |-> <<>>, reactIssues |-> <<>>,
   raises |-> {}]

Analyzers == {"lines", "comments", "react", "console", "typescript", "fallback"}

\* a file with a finding for every heuristic analyzer
BusyContent(limit) ==
  [lines |-> limit + 1,
   commentLines |-> <<[line |-> 3, type |-> "jsdoc"]>>,
   consoleLines |-> <<[line |-> 4, method |-> "error"]>>,
   untypedFunctions |-> <<[name |-> "load", line |-> 5]>>,
   fallbackLines |-> <<[line |-> 6, type |-> "or-empty"]>>,
   reactIssues |-> <<[message |-> "Missing React import for React.* usage", line |-> 7]>>,
   raises |-> {}]

Contents(filePath) ==
  LET limit == FILE_SIZE_LIMITS[getFileType(filePath)]
  IN {CleanContent,
      [CleanContent EXCEPT !.lines = limit],
      [CleanContent EXCEPT !.lines = limit + 1],
      [CleanContent EXCEPT !.commentLines = <<[line |-> 3, type |-> "jsdoc"]>>],
      [CleanContent EXCEPT !.consoleLines = <<[line |-> 4, method |-> "error"]>>],
      [CleanContent EXCEPT !.untypedFunctions = <<[name |-> "load", line |-> 5]>>],
      [CleanContent EXCEPT !.fallbackLines = <<[line |-> 6, type |-> "or-empty"]>>]}
     \cup {[BusyContent(limit) EXCEPT !.raises = {a}] : a \in Analyzers}

\* countLines: 0 when the body throws
countLines(content) == IF "lines" \in content.raises THEN 0 ELSE content.lines

\* analyzeComments: [] when the body throws
analyzeComments(content) ==
  IF "comments" \in content.raises THEN <<>> ELSE content.commentLines

\* analyzeReactPatterns: no issues when the body throws
analyzeReactPatterns(content) ==
  IF "react" \in content.raises
  THEN [hasReactImport |-> FALSE, issues |-> <<>>]
  ELSE [hasReactImport |-> FALSE, issues |-> content.reactIssues]

\* a catch block that returns the violations found before the exception
analyzeConsoleErrorsKeepFound(content) ==
  [violations |-> content.consoleLines, count |-> Len(content.consoleLines),
   status |-> Status(Len(content.consoleLines) # 0)]

analyzeConsoleErrors(content) ==
  IF "console" \in content.raises
  THEN [violations |-> <<>>, count |-> 0, status |-> "PASS"]
  ELSE [violations |-> content.consoleLines, count |-> Len(content.consoleLines),
        status |-> Status(Len(content.consoleLines) # 0)]

analyzeTypeScript(content) ==
  IF "typescript" \in content.raises
  THEN [missingReturnTypes |-> 0, status |-> "PASS", details |-> <<>>]
  ELSE [missingReturnTypes |-> Len(content.untypedFunctions),
        status |-> Status(Len(content.untypedFunctions) # 0),
        details |-> content.untypedFunctions]

analyzeFallbackData(content) ==
  IF "fallback" \in content.raises
  THEN [violations |-> <<>>, count |-> 0, status |-> "PASS"]
  ELSE [violations |-> content.fallbackLines, count |-> Len(content.fallbackLines),
        status |-> Status(Len(content.fallbackLines) # 0)]

\* the per-file stub: no findings
runEslint(filePath) == [errors |-> <<>>, warnings |-> <<>>]

\* the mapper handed to mapLimit for the per-file pass
PerFile(filePath, content, eslintMap) ==
  LET limit == FILE_SIZE_LIMITS[getFileType(filePath)]
      lines == countLines(content)
      commentsArr == analyzeComments(content)
  IN [filePath |-> filePath,
      relPath |-> toRepoRelative(filePath),
      fileType |-> getFileType(filePath),
      size |-> [lines |-> lines, limit |-> limit, status |-> Status(lines > limit)],
      comments |-> [count |-> Len(commentsArr), status |-> Status(Len(commentsArr) # 0),
                    violations |-> commentsArr],
      react |-> analyzeReactPatterns(content),
      consoleErrors |-> analyzeConsoleErrors(content),
      eslint |-> IF filePath \in DOMAIN eslintMap THEN eslintMap[filePath]
                 ELSE runEslint(filePath),
      typescript |-> analyzeTypeScript(content),
      fallbackData |-> analyzeFallbackData(content)]

\* ---------------------------------------------------- repo-wide tool runs
\* what a subprocess printed, seen through JSON.parse
JsonOut(d) == [kind |-> "json", data |-> d]
GarbageOut == [kind |-> "garbage"]

\* one entry of knip's issues array
EmptyItem(file) ==
  [file |-> file, exports |-> <<>>, types |-> <<>>, enumMembers |-> <<>>,
   classMembers |-> <<>>, unlisted |-> <<>>, unresolved |-> <<>>]

\* a reported symbol carries the number of whole-word occurrences of its name
\* in the file's text; the merge counts them for the reported types
KnipItems(file) ==
  {EmptyItem(file),
   [EmptyItem(file) EXCEPT !.exports = <<[name |-> "helper", occurrences |-> 1]>>],
   [EmptyItem(file) EXCEPT !.exports = <<[name |-> "helper", occurrences |-> 2]>>],
   [EmptyItem(file) EXCEPT !.types = <<[name |-> "Props", occurrences |-> 1]>>],
   [EmptyItem(file) EXCEPT !.types = <<[name |-> "Props", occurrences |-> 2]>>],
   [EmptyItem(file) EXCEPT !.enumMembers = <<[enum |-> "Color", members |-> <<"Red">>]>>],
   [EmptyItem(file) EXCEPT !.classMembers = <<[class |-> "Store", members |-> <<"reset">>]>>],
   [EmptyItem(file) EXCEPT !.unlisted = <<"lodash">>],
   [EmptyItem(file) EXCEPT !.unresolved = <<"./gone">>]}

CleanKnip == [exit |-> 0, out |-> JsonOut([files |-> <<>>, issues |-> <<>>])]

\* the files knip's findings are about: the first analyzed file, or a file
\* outside the analyzed set
Subjects(files) == (IF files = <<>> THEN {} ELSE {files[1]}) \cup {OtherFile}

KnipOutcomes(files) ==
  {CleanKnip, [exit |-> 1, out |-> GarbageOut]}
    \cup {[exit |-> 1, out |-> JsonOut([files |-> fs, issues |-> is])] :
            fs \in {<<>>} \cup {<<f>> : f \in Subjects(files)},
            is \in {<<>>} \cup {<<it>> : it \in UNION {KnipItems(f) : f \in Subjects(files)}}}

KnipCost(o) ==
  IF o = CleanKnip THEN 0
  ELSE IF o.out.kind # "json" THEN 1
  ELSE (IF o.out.data.files # <<>> THEN 1 ELSE 0) + (IF o.out.data.issues # <<>> THEN 1 ELSE 0)

\* runKnip: JSON.parse of the output on either exit path, else {error, raw}
runKnip(o) ==
  IF o.out.kind = "json" THEN o.out.data
  ELSE [error |-> "Failed to run knip", raw |-> o.out.kind]

\* one clone pair of jscpd
Dup(a, b) ==
  [firstFile |-> [name |-> a, start |-> 1, end |-> 8],
   secondFile |-> [name |-> b, start |-> 11, end |-> 18],
   lines |-> 8, tokens |-> 60]

RECURSIVE SumLines(_)
SumLines(dups) == IF dups = <<>> THEN 0 ELSE Head(dups).lines + SumLines(Tail(dups))

\* the result the generated jscpd script prints
JscpdResult(dups, pct) ==
  [duplicates |-> dups,
   statistics |-> [total |-> MapMerge([clones |-> Len(dups), duplicatedLines |-> SumLines(dups)],
                                      IF pct >= 0 THEN [percentage |-> pct] ELSE EmptyMap)]]

CleanJscpd == [exit |-> 0, out |-> JsonOut(JscpdResult(<<>>, -1))]

JscpdOutcomes(files) ==
  {CleanJscpd,
   [exit |-> 0, out |-> GarbageOut],
   [exit |-> 1, out |-> JsonOut([error |-> "jscpd failed"])],
   [exit |-> 0, out |-> JsonOut(JscpdResult(<<Dup(OtherFile, OtherFile)>>, -1))]}
    \cup (IF files = <<>> THEN {}
          ELSE {[exit |-> 0, out |-> JsonOut(JscpdResult(<<Dup(files[1], files[Len(files)])>>, 4))],
                [exit |-> 0, out |-> JsonOut(JscpdResult(<<Dup(OtherFile, files[1])>>, -1))]})

JscpdCost(o) == IF o = CleanJscpd THEN 0 ELSE 1

\* runJscpd: parsed output on either exit path, else {error, raw}
runJscpd(o) ==
  IF o.out.kind = "json" THEN o.out.data
  ELSE [error |-> "Failed to parse jscpd API output", raw |-> o.out.kind]

\* a line of tsc output, by the patterns of runTsc it matches
TscLine(kind, file) == [kind |-> kind, file |-> file]

CleanTsc == [exit |-> 0, lines |-> <<>>]

TscOutcomes(files) ==
  {CleanTsc,
   [exit |-> 2, lines |-> <<TscLine("paren", OtherFile)>>],
   [exit |-> 2, lines |-> <<TscLine("global", "")>>],
   [exit |-> 2, lines |-> <<TscLine("blank", ""), TscLine("unmatched", "")>>],
   [exit |-> 1, lines |-> <<TscLine("noise", "")>>]}
    \cup (IF files = <<>> THEN {}
          ELSE {[exit |-> 2, lines |-> <<TscLine("paren", files[1])>>],
                [exit |-> 2, lines |-> <<TscLine("colon", AbsPath(files[1]))>>]})

TscCost(o) == IF o = CleanTsc THEN 0 ELSE 1

\* path.isAbsolute(fileRaw) ? fileRaw : path.join(ROOT_DIR, fileRaw)
FileAbs(fileRaw) ==
  IF Len(fileRaw) > 0 /\ SubSeq(fileRaw, 1, 1) = "/" THEN fileRaw ELSE AbsPath(fileRaw)

\* add(fileKey, item)
TscAdd(acc, fileKey, item) ==
  [byFile |-> MapMerge(acc.byFile,
                [k \in {fileKey} |->
                   (IF fileKey \in DOMAIN acc.byFile THEN acc.byFile[fileKey] ELSE <<>>)
                     \o <<item>>]),
   totalErrors |-> acc.totalErrors + 1]

RECURSIVE TscParse(_, _)
TscParse(lines, acc) ==
  IF lines = <<>> THEN acc
  ELSE LET l == Head(lines)
       IN TscParse(Tail(lines),
            IF l.kind \in {"blank", "noise"} THEN acc
            ELSE IF l.kind \in {"paren", "colon"}
              THEN TscAdd(acc, toRepoRelative(FileAbs(l.file)), [code |-> "TS2322"])
            ELSE IF l.kind = "global"
              THEN TscAdd(acc, "__global__", [code |-> "TS5083"])
            ELSE TscAdd(acc, "__global__", [code |-> "UNKNOWN"]))

\* runTsc: exit 0 is a clean run; otherwise every line holding `error TS<n>`
\* is filed under its file or under __global__, and every other line is skipped
runTsc(o) ==
  IF o.exit = 0 THEN [byFile |-> EmptyMap, totalErrors |-> 0]
  ELSE MapMerge(TscParse(o.lines, [byFile |-> EmptyMap, totalErrors |-> 0]),
                [raw |-> o.lines])

\* repoWarnings before its `let` declaration has been evaluated
TDZ == [declared |-> FALSE, list |-> <<>>]

\* let repoWarnings = []
Declared == [declared |-> TRUE, list |-> <<>>]

\* repoWarnings.push(msg): a ReferenceError while the binding is uninitialized
PushThrows(warnings) == ~warnings.declared

Push(warnings, msg) == [warnings EXCEPT !.list = Append(@, msg)]

CleanEslintRepo == [exit |-> 0, stdout |-> [kind |-> "array", entries |-> <<>>]]

EslintRepoOutcomes ==
  {CleanEslintRepo,
   [exit |-> 1, stdout |-> [kind |-> "array",
       entries |-> <<[filePath |-> AbsPath(OtherFile), messages |-> <<ErrMsg>>]>>]],
   [exit |-> 0, stdout |-> [kind |-> "array",
       entries |-> <<[filePath |-> AbsPath(OtherFile), messages |-> <<WarnMsg>>]>>]],
   [exit |-> 2, stdout |-> StdoutGarbage],
   [exit |-> 2, stdout |-> StdoutObject],
   [exit |-> 2, stdout |-> StdoutEmpty]}

EslintRepoCost(o) == IF o = CleanEslintRepo THEN 0 ELSE 1

RECURSIVE CountSeverity(_, _)
CountSeverity(report, sev) ==
  IF report = <<>> THEN 0
  ELSE Len(SelectSeq(Head(report).messages, LAMBDA m : m.severity = sev))
         + CountSeverity(Tail(report), sev)

RepoTotals(report) ==
  [totalErrors |-> CountSeverity(report, 2), totalWarnings |-> CountSeverity(report, 1),
   files |-> report]

\* the part of pEslintRepo that runs when the subprocess has ended: the totals
\* of the parsed report on either exit path, an empty report for an empty
\* stdout, and a warning with zero totals when the output cannot be used
EslintRepoSettle(o, warnings) ==
  IF o.stdout.kind = "array"
    THEN [rejected |-> FALSE, data |-> RepoTotals(o.stdout.entries), warnings |-> warnings]
  ELSE IF o.stdout.kind = "empty"
    THEN [rejected |-> FALSE, data |-> RepoTotals(<<>>), warnings |-> warnings]
  ELSE IF PushThrows(warnings)
    THEN [rejected |-> TRUE, data |-> EmptyMap, warnings |-> warnings]
  ELSE [rejected |-> FALSE, data |-> RepoTotals(<<>>),
        warnings |-> Push(warnings, "Repo-wide ESLint gate error")]

\* the synchronous start of pEslintRepo when no ESLint config is found: the
\* push of the skip warning throws, the catch block's recovery parses the
\* text "undefined", and its own push throws again
EslintRepoNoConfig(warnings) ==
  IF PushThrows(warnings)
  THEN [rejected |-> TRUE, data |-> EmptyMap, warnings |-> warnings]
  ELSE [rejected |-> FALSE, data |-> RepoTotals(<<>>),
        warnings |-> Push(warnings, "Project ESLint config not found; repo-wide ESLint gate skipped.")]

\* absFiles.slice(i, i + CHUNK_SIZE)
Chunks(absFiles) == Slices(absFiles, ChunkSize)

CleanLint(chunk) ==
  [exit |-> 0, stderr |-> "",
   stdout |-> [kind |-> "array",
               entries |-> [k \in 1..Len(chunk) |-> [filePath |-> chunk[k], messages |-> <<>>]]]]

LintWith(chunk, exit, msgs) ==
  [exit |-> exit, stderr |-> "",
   stdout |-> [kind |-> "array",
               entries |-> [k \in 1..Len(chunk) |->
                  [filePath |-> chunk[k], messages |-> IF k = 1 THEN msgs ELSE <<>>]]]]

\* how the ESLint run of one chunk can end
LintOutcomes(chunk) ==
  {CleanLint(chunk),
   LintWith(chunk, 1, <<ErrMsg>>),
   LintWith(chunk, 0, <<WarnMsg>>),
   [exit |-> 2, stderr |-> "", stdout |-> StdoutGarbage],
   [exit |-> 2, stderr |-> "Oops! Something went wrong", stdout |-> StdoutEmpty],
   [CleanLint(chunk) EXCEPT !.stderr = "DeprecationWarning"]}

LintCost(chunk, o) == IF o = CleanLint(chunk) THEN 0 ELSE 1

\* runEslintBatch(chunk) on a platform without sub-batching
LintChunk(chunk, o) ==
  runEslintBatch(chunk, [k \in 1..Len(Slices(chunk, SUB_BATCH(FALSE, chunk))) |-> o], FALSE)

\* ------------------------------------------------------------ merge phase
\* r with the field k set to v (r.k = v, adding the property if absent)
SetField(r, k, v) == MapMerge(r, [x \in {k} |-> v])

Has(r, k) == k \in DOMAIN r

\* Attach TSC per-file
AttachTsc(results, tscData) ==
  LET byFile == IF Has(tscData, "byFile") THEN tscData.byFile ELSE EmptyMap
  IN [i \in 1..Len(results) |->
        LET key == toRepoRelative(results[i].filePath)
            errs == IF key \in DOMAIN byFile THEN byFile[key] ELSE <<>>
        IN SetField(results[i], "typescriptCompiler",
             [errorCount |-> Len(errs), errors |-> errs, status |-> Status(Len(errs) # 0)])]

\* index of the result whose repo-relative path is rel, or 0 (byFile.get)
ResultOf(results, rel) ==
  IF \E i \in 1..Len(results) : toRepoRelative(results[i].filePath) = rel
  THEN CHOOSE i \in 1..Len(results) :
         /\ toRepoRelative(results[i].filePath) = rel
         /\ \A k \in 1..Len(results) : toRepoRelative(results[k].filePath) = rel => k <= i
  ELSE 0

RECURSIVE CountMembers(_)
CountMembers(groups) ==
  IF groups = <<>> THEN 0 ELSE Len(Head(groups).members) + CountMembers(Tail(groups))

\* the type names knip reported for fileKey, over all issue entries
RECURSIVE TypeCandidates(_, _)
TypeCandidates(issues, fileKey) ==
  IF issues = <<>> THEN <<>>
  ELSE LET rest == TypeCandidates(SubSeq(issues, 1, Len(issues) - 1), fileKey)
           item == issues[Len(issues)]
           fresh == SelectSeq(item.types,
                      LAMBDA t : \A k \in 1..Len(rest) : rest[k].name # t.name)
       IN IF toRepoRelative(item.file) = fileKey THEN rest \o fresh ELSE rest

Names(seq) == [k \in 1..Len(seq) |-> seq[k].name]

\* the worker's split of a file's candidates: a name found more than once in
\* the file's text is unused-exported, every other name is unused
SplitUnused(cands) == Names(SelectSeq(cands, LAMBDA t : ~(t.occurrences > 1)))
SplitUnusedExported(cands) == Names(SelectSeq(cands, LAMBDA t : t.occurrences > 1))

\* the deletion guidance of the pre-mark, and the shorter one of the merge
DelGuidance == "Candidate for deletion. Investigate thoroughly (check dynamic imports, runtime requires, config/test/tooling references). If truly unused, delete the file rather than archiving or excluding it."
DelGuidanceOfMerge == "Candidate for deletion. Investigate thoroughly; if truly unused, delete the file."

\* the pre-mark without its `includes` test: the guidance is always prepended
RECURSIVE PreMarkAlwaysPrepends(_, _)
PreMarkAlwaysPrepends(results, unusedFiles) ==
  IF unusedFiles = <<>> THEN results
  ELSE LET i == ResultOf(results, Head(unusedFiles))
           old == IF i # 0 /\ Has(results[i], "deadCode") THEN results[i].deadCode
                  ELSE [recommendations |-> <<>>]
           dc == MapMerge(old, [unusedFile |-> TRUE, status |-> "FAIL",
                                recommendations |-> <<DelGuidance>> \o old.recommendations])
       IN PreMarkAlwaysPrepends(IF i = 0 THEN results
                  ELSE [results EXCEPT ![i] = SetField(@, "deadCode", dc)],
                  Tail(unusedFiles))

\* Pre-mark per-file results for files Knip reports as unused
RECURSIVE PreMark(_, _)
PreMark(results, unusedFiles) ==
  IF unusedFiles = <<>> THEN results
  ELSE LET i == ResultOf(results, Head(unusedFiles))
           old == IF i # 0 /\ Has(results[i], "deadCode") THEN results[i].deadCode
                  ELSE [recommendations |-> <<>>]
           recs == IF \E k \in 1..Len(old.recommendations) : old.recommendations[k] = DelGuidance
                   THEN old.recommendations
                   ELSE <<DelGuidance>> \o old.recommendations
           dc == MapMerge(old, [unusedFile |-> TRUE, status |-> "FAIL", recommendations |-> recs])
       IN PreMark(IF i = 0 THEN results
                  ELSE [results EXCEPT ![i] = SetField(@, "deadCode", dc)],
                  Tail(unusedFiles))

ZeroSummary(unusedFiles) ==
  [unusedFiles |-> unusedFiles, unusedExports |-> 0, unusedTypes |-> 0,
   unusedExportedTypes |-> 0, unusedEnumMembers |-> 0, unusedClassMembers |-> 0,
   unlistedDependencies |-> 0, unresolvedImports |-> 0]

\* the body of `for (const item of issues)` for one entry
MergeIssue(acc, item, issues, unusedFiles) ==
  LET fileKey == toRepoRelative(item.file)
      cands == TypeCandidates(issues, fileKey)
      hasSplit == fileKey # "" /\ cands # <<>>
      unusedTypeNames == IF hasSplit THEN SplitUnused(cands) ELSE Names(item.types)
      unusedExportedTypeNames == IF hasSplit THEN SplitUnusedExported(cands) ELSE <<>>
      nExports == Len(item.exports)
      nEnum == CountMembers(item.enumMembers)
      nClass == CountMembers(item.classMembers)
      nUnlisted == Len(item.unlisted)
      nUnresolved == Len(item.unresolved)
      summary == [acc.summary EXCEPT
                    !.unusedExports = @ + nExports,
                    !.unusedTypes = @ + Len(unusedTypeNames),
                    !.unusedExportedTypes = @ + Len(unusedExportedTypeNames),
                    !.unusedEnumMembers = @ + nEnum,
                    !.unusedClassMembers = @ + nClass,
                    !.unlistedDependencies = @ + nUnlisted,
                    !.unresolvedImports = @ + nUnresolved]
      any == \/ nExports > 0 \/ Len(unusedTypeNames) > 0
             \/ Len(unusedExportedTypeNames) > 0 \/ nEnum > 0 \/ nClass > 0
             \/ nUnlisted > 0 \/ nUnresolved > 0
      rec(cond, text) == IF cond THEN <<text>> ELSE <<>>
      recs == rec(\E k \in 1..Len(unusedFiles) : unusedFiles[k] = fileKey, DelGuidanceOfMerge)
              \o rec(nExports > 0, "Remove unused export(s) or their references.")
              \o rec(Len(unusedExportedTypeNames) > 0, "Make exported type(s) non-exported if only used internally.")
              \o rec(Len(unusedTypeNames) > 0, "Remove unused type(s) or inline where needed.")
              \o rec(nEnum > 0, "Remove unused enum member(s).")
              \o rec(nClass > 0, "Remove unused class member(s).")
              \o rec(nUnlisted > 0, "Remove unlisted dependency usage or add to package.json appropriately.")
              \o rec(nUnresolved > 0, "Fix unresolved import(s): verify path/alias/tsconfig paths.")
      dcBase == [unusedExports |-> nExports,
                 unusedTypes |-> Len(unusedTypeNames),
                 unusedExportedTypes |-> Len(unusedExportedTypeNames),
                 status |-> Status(any),
                 recommendations |-> recs]
      opt(cond, k, v) == IF cond THEN [x \in {k} |-> v] ELSE EmptyMap
      dc == MapMerge(MapMerge(MapMerge(MapMerge(MapMerge(MapMerge(MapMerge(dcBase,
              opt(nUnresolved > 0, "unresolvedImportSpecifiers", item.unresolved)),
              opt(nUnlisted > 0, "unlistedDependencyModules", item.unlisted)),
              opt(nExports > 0, "unusedExportNames", Names(item.exports))),
              opt(Len(unusedTypeNames) > 0, "unusedTypeNames", unusedTypeNames)),
              opt(Len(unusedExportedTypeNames) > 0, "unusedExportedTypeNames", unusedExportedTypeNames)),
              opt(nEnum > 0, "unusedEnumMemberNames", item.enumMembers)),
              opt(nClass > 0, "unusedClassMemberNames", item.classMembers))
      i == ResultOf(acc.results, fileKey)
      old == IF i # 0 /\ Has(acc.results[i], "deadCode") THEN acc.results[i].deadCode
             ELSE EmptyMap
  IN [results |-> IF i = 0 THEN acc.results
                  ELSE [acc.results EXCEPT ![i] = SetField(@, "deadCode", MapMerge(old, dc))],
      summary |-> summary]

RECURSIVE MergeIssues(_, _, _, _)
MergeIssues(acc, todo, issues, unusedFiles) ==
  IF todo = <<>> THEN acc
  ELSE MergeIssues(MergeIssue(acc, Head(todo), issues, unusedFiles), Tail(todo),
                   issues, unusedFiles)

DefaultDeadCode ==
  [unusedExports |-> 0, unusedTypes |-> 0, unusedExportedTypes |-> 0,
   unusedEnumMembers |-> 0, unusedClassMembers |-> 0, unlistedDependencies |-> 0,
   unresolvedImports |-> 0, unresolvedImportSpecifiers |-> <<>>,
   unlistedDependencyModules |-> <<>>, status |-> "PASS", recommendations |-> <<>>]

\* applyKnipToResults: the merged results and the repo summary
applyKnipToResults(results, knipData) ==
  LET files == IF Has(knipData, "files") THEN knipData.files ELSE <<>>
      issues == IF Has(knipData, "issues") THEN knipData.issues ELSE <<>>
      unusedFiles == [k \in 1..Len(files) |-> toRepoRelative(files[k])]
      marked == PreMark(results, unusedFiles)
      merged == MergeIssues([results |-> marked, summary |-> ZeroSummary(Len(files))],
                            issues, issues, unusedFiles)
  IN [results |-> [i \in 1..Len(merged.results) |->
                     IF Has(merged.results[i], "deadCode") THEN merged.results[i]
                     ELSE SetField(merged.results[i], "deadCode", DefaultDeadCode)],
      summary |-> merged.summary,
      details |-> [unusedFiles |-> unusedFiles]]

\* a pushSegment pair whose second record repeats the spans of the first
RECURSIVE SegmentsOfRepeated(_, _)
SegmentsOfRepeated(dups, fileRel) ==
  IF dups = <<>> THEN <<>>
  ELSE LET dup == Head(dups)
           firstRel == toRepoRelative(dup.firstFile.name)
           secondRel == toRepoRelative(dup.secondFile.name)
           seg(other) ==
             [otherFile |-> other, lines |-> dup.lines, tokens |-> dup.tokens,
              startLine |-> dup.firstFile.start, endLine |-> dup.firstFile.end,
              otherStartLine |-> dup.secondFile.start, otherEndLine |-> dup.secondFile.end]
       IN (IF firstRel = fileRel THEN <<seg(secondRel)>> ELSE <<>>)
          \o (IF secondRel = fileRel THEN <<seg(firstRel)>> ELSE <<>>)
          \o SegmentsOfRepeated(Tail(dups), fileRel)

\* the segments pushSegment files under fileRel, in the order of the clones
RECURSIVE SegmentsOf(_, _)
SegmentsOf(dups, fileRel) ==
  IF dups = <<>> THEN <<>>
  ELSE LET dup == Head(dups)
           firstRel == toRepoRelative(dup.firstFile.name)
           secondRel == toRepoRelative(dup.secondFile.name)
           seg(other, mine, theirs) ==
             [otherFile |-> other, lines |-> dup.lines, tokens |-> dup.tokens,
              startLine |-> mine.start, endLine |-> mine.end,
              otherStartLine |-> theirs.start, otherEndLine |-> theirs.end]
       IN (IF firstRel = fileRel THEN <<seg(secondRel, dup.firstFile, dup.secondFile)>> ELSE <<>>)
          \o (IF secondRel = fileRel THEN <<seg(firstRel, dup.secondFile, dup.firstFile)>> ELSE <<>>)
          \o SegmentsOf(Tail(dups), fileRel)

\* applyJscpdToResults: the merged results and the repo summary
applyJscpdToResults(results, jscpdData) ==
  LET dups == IF Has(jscpdData, "duplicates") THEN jscpdData.duplicates ELSE <<>>
      totalStats == IF Has(jscpdData, "statistics") THEN jscpdData.statistics.total ELSE EmptyMap
      summaryBase == [groups |-> IF Has(totalStats, "clones") THEN totalStats.clones ELSE 0,
                      duplicatedLines |-> IF Has(totalStats, "duplicatedLines")
                                          THEN totalStats.duplicatedLines ELSE 0,
                      details |-> [topGroups |-> SubSeq(dups, 1, IF Len(dups) < 5 THEN Len(dups) ELSE 5),
                                   playbook |-> "similarBlocks"]]
  IN [results |-> [i \in 1..Len(results) |->
                     LET segs == SegmentsOf(dups, toRepoRelative(results[i].filePath))
                     IN SetField(results[i], "duplicates",
                          [count |-> Len(segs), segments |-> segs,
                           status |-> Status(Len(segs) > 0),
                           recommendations |-> IF Len(segs) > 0
                                               THEN <<"Extract shared logic into a utility/component to remove duplication.">> ELSE <<>>])],
      summary |-> IF Has(totalStats, "percentage")
                  THEN MapMerge(summaryBase, [percentage |-> totalStats.percentage])
                  ELSE summaryBase]

\* ------------------------------------------------------------ report stage
RECURSIVE SumLens(_, _)
SumLens(byFile, keys) ==
  IF keys = {} THEN 0
  ELSE LET k == CHOOSE x \in keys : TRUE
       IN Len(byFile[k]) + SumLens(byFile, keys \ {k})

\* Object.values(byFile).reduce((a, arr) => a + arr.length, 0)
TotalErrors(tscData) ==
  IF Has(tscData, "byFile") THEN SumLens(tscData.byFile, DOMAIN tscData.byFile) ELSE 0

Num(r, k) == IF Has(r, k) THEN r[k] ELSE 0

repoViolationNoProjectGate(filteredTotalErrors, projectTotalErrors, eslintRepoData, knipSummary, jscpdSummary) ==
  \/ filteredTotalErrors > 0
  \/ Num(eslintRepoData, "totalErrors") > 0
  \/ knipSummary.unusedFiles > 0 \/ knipSummary.unusedExports > 0
  \/ knipSummary.unusedTypes > 0 \/ knipSummary.unusedExportedTypes > 0
  \/ knipSummary.unusedEnumMembers > 0 \/ knipSummary.unusedClassMembers > 0
  \/ knipSummary.unlistedDependencies > 0 \/ knipSummary.unresolvedImports > 0
  \/ jscpdSummary.groups > 0 \/ jscpdSummary.duplicatedLines > 0
  \/ Num(jscpdSummary, "percentage") > 0

repoViolation(filteredTotalErrors, projectTotalErrors, eslintRepoData, knipSummary, jscpdSummary) ==
  \/ filteredTotalErrors > 0
  \/ projectTotalErrors > 0
  \/ Num(eslintRepoData, "totalErrors") > 0
  \/ knipSummary.unusedFiles > 0 \/ knipSummary.unusedExports > 0
  \/ knipSummary.unusedTypes > 0 \/ knipSummary.unusedExportedTypes > 0
  \/ knipSummary.unusedEnumMembers > 0 \/ knipSummary.unusedClassMembers > 0
  \/ knipSummary.unlistedDependencies > 0 \/ knipSummary.unresolvedImports > 0
  \/ jscpdSummary.groups > 0 \/ jscpdSummary.duplicatedLines > 0
  \/ Num(jscpdSummary, "percentage") > 0

\* the predicate of results.some(...) and of results.filter(...)
FileFails(r) ==
  \/ Len(r.eslint.errors) > 0 \/ Len(r.eslint.warnings) > 0
  \/ r.comments.status = "FAIL" \/ r.size.status = "FAIL"
  \/ r.typescript.status = "FAIL"
  \/ (Has(r, "typescriptCompiler") /\ r.typescriptCompiler.status = "FAIL")
  \/ r.consoleErrors.status = "FAIL" \/ r.fallbackData.status = "FAIL"
  \/ (Has(r, "deadCode") /\ r.deadCode.status = "FAIL")
  \/ (Has(r, "duplicates") /\ r.duplicates.status = "FAIL")

perFileViolation(results) == \E i \in 1..Len(results) : FileFails(results[i])

Issues(source, seq) == [k \in 1..Len(seq) |-> [source |-> source, item |-> seq[k]]]

\* minimalizeFile: the path and, when there are any, the issues of the
\* failing categories
minimalizeFile(r) ==
  LET issues ==
        (IF r.size.status = "FAIL" THEN Issues("size", <<r.size.lines>>) ELSE <<>>)
        \o Issues("eslint", r.eslint.errors) \o Issues("eslint", r.eslint.warnings)
        \o (IF r.comments.status = "FAIL" /\ Has(r.comments, "violations")
            THEN Issues("comments", r.comments.violations) ELSE <<>>)
        \o (IF r.consoleErrors.status = "FAIL" /\ Has(r.consoleErrors, "violations")
            THEN Issues("console", r.consoleErrors.violations) ELSE <<>>)
        \o (IF r.typescript.status = "FAIL" /\ Has(r.typescript, "details")
            THEN Issues("ts-heuristics", r.typescript.details) ELSE <<>>)
        \o (IF Has(r, "typescriptCompiler") /\ r.typescriptCompiler.status = "FAIL"
            THEN Issues("tsc", r.typescriptCompiler.errors) ELSE <<>>)
        \o (IF r.fallbackData.status = "FAIL" /\ Has(r.fallbackData, "violations")
            THEN Issues("fallback", r.fallbackData.violations) ELSE <<>>)
        \o (IF Has(r, "duplicates") /\ r.duplicates.status = "FAIL"
            THEN Issues("jscpd", r.duplicates.segments) ELSE <<>>)
  IN MapMerge([relPath |-> r.relPath],
              IF issues # <<>> THEN [issues |-> issues] ELSE EmptyMap)

\* the synthetic entry for TSC-only repo failures
Synthetic(filteredTotalErrors) ==
  [filePath |-> "(repo) TypeScript Compiler", relPath |-> "__global__", fileType |-> "ts",
   size |-> [lines |-> 0, limit |-> 0, status |-> "PASS"],
   comments |-> [count |-> 0, status |-> "PASS"],
   consoleErrors |-> [count |-> 0, lines |-> <<>>, status |-> "PASS"],
   eslint |-> [errors |-> <<>>, warnings |-> <<>>],
   typescript |-> [issues |-> <<>>, status |-> "PASS"],
   fallbackData |-> [findings |-> <<>>, status |-> "PASS"],
   typescriptCompiler |-> [errorCount |-> filteredTotalErrors,
                           errors |-> [k \in 1..filteredTotalErrors |-> [code |-> "TS"]],
                           status |-> Status(filteredTotalErrors > 0)]]

\* a resultsToWrite that lists every analyzed file whatever the mode
resultsToWriteUnfiltered(results, hasViolations, reportAll, filteredTotalErrors) ==
  IF hasViolations /\ results = <<>> /\ filteredTotalErrors > 0
  THEN <<Synthetic(filteredTotalErrors)>>
  ELSE IF hasViolations \/ reportAll THEN results ELSE <<>>

resultsToWrite(results, hasViolations, reportAll, filteredTotalErrors) ==
  LET kept == IF hasViolations
              THEN (IF reportAll THEN results ELSE SelectSeq(results, FileFails))
              ELSE (IF reportAll THEN results ELSE <<>>)
  IN IF hasViolations /\ kept = <<>> /\ filteredTotalErrors > 0
     THEN <<Synthetic(filteredTotalErrors)>>
     ELSE kept

\* the knip block of repoOut: the positive counts of the summary
KnipOut(s) ==
  LET keep(k) == IF s[k] > 0 THEN [x \in {k} |-> s[k]] ELSE EmptyMap
  IN MapMerge(MapMerge(MapMerge(MapMerge(MapMerge(MapMerge(MapMerge(MapMerge(
       [guidance |-> "due diligence"],
       keep("unusedFiles")), keep("unusedExports")), keep("unusedTypes")),
       keep("unusedExportedTypes")), keep("unusedEnumMembers")),
       keep("unusedClassMembers")), keep("unlistedDependencies")),
       keep("unresolvedImports"))

\* repoOut: the failing repo-level blocks, the actions and the warnings
repoOut(filteredTotalErrors, eslintRepoData, knipSummary, jscpdSummary, warnings) ==
  LET tsc == IF filteredTotalErrors > 0
             THEN [tsc |-> [totalErrors |-> filteredTotalErrors]] ELSE EmptyMap
      knipFail == \/ knipSummary.unusedFiles > 0 \/ knipSummary.unusedExports > 0
                  \/ knipSummary.unusedTypes > 0 \/ knipSummary.unusedEnumMembers > 0
                  \/ knipSummary.unusedClassMembers > 0
                  \/ knipSummary.unlistedDependencies > 0
                  \/ knipSummary.unresolvedImports > 0
      knip == IF knipFail THEN [knip |-> KnipOut(knipSummary)] ELSE EmptyMap
      jscpdFail == \/ jscpdSummary.groups > 0 \/ jscpdSummary.duplicatedLines > 0
                   \/ Num(jscpdSummary, "percentage") > 0
      jscpd == IF jscpdFail
               THEN [jscpd |-> MapMerge([groups |-> jscpdSummary.groups,
                                         duplicatedLines |-> jscpdSummary.duplicatedLines,
                                         details |-> jscpdSummary.details],
                                        IF Has(jscpdSummary, "percentage")
                                        THEN [percentage |-> jscpdSummary.percentage]
                                        ELSE EmptyMap)]
               ELSE EmptyMap
      repoActions ==
        (IF filteredTotalErrors > 0 THEN <<"Run project-wide TypeScript check">> ELSE <<>>)
        \o (IF Num(eslintRepoData, "totalErrors") > 0
            THEN <<"Fix ESLint errors across authored roots">> ELSE <<>>)
        \o (IF knipFail THEN <<"Resolve Knip findings">> ELSE <<>>)
        \o (IF jscpdFail /\ jscpdSummary.groups > 0
            THEN <<"Refactor duplicated code groups reported by jscpd">> ELSE <<>>)
      actions == IF repoActions # <<>> THEN [actions |-> repoActions] ELSE EmptyMap
      warns == IF warnings # <<>> THEN [warnings |-> warnings] ELSE EmptyMap
  IN MapMerge(MapMerge(MapMerge(MapMerge(tsc, knip), jscpd), actions), warns)

\* the final payload
Payload(hasViolations, minimalResults, repo) ==
  IF hasViolations
  THEN MapMerge([summary |-> [status |-> "fail"], results |-> minimalResults,
                 executionPlan |-> "plan"],
                IF DOMAIN repo # {} THEN [repo |-> repo] ELSE EmptyMap)
  ELSE [summary |-> [status |-> "pass", noViolations |-> TRUE], results |-> <<>>]

\* ------------------------------------------------------------------- main
ToolNames == {"knip", "jscpd", "tsc", "tscProject", "eslintRepo"}

Pending == [state |-> "pending"]
Fulfilled(o, d) == [state |-> "fulfilled", out |-> o, data |-> d]
Rejected == [state |-> "rejected"]

TsVersion == "5.4.5"

\* what `tsc -v` reports in the project and in the review toolchain ("" when
\* the probe fails or prints no version)
VersionPairs ==
  {[project |-> p, review |-> r] : p \in {TsVersion, ""}, r \in {TsVersion, "5.3.3", ""}}

\* a comparison that takes two unknown versions as equal
versionsEqualUnknown(a, b) == a = b

versionsEqual(a, b) == a # "" /\ b # "" /\ a = b

AbsFiles(files) == [k \in 1..Len(files) |-> AbsPath(files[k])]

Range(seq) == {seq[k] : k \in 1..Len(seq)}

RECURSIVE Card(_)
Card(set) == IF set = {} THEN 0 ELSE 1 + Card(set \ {CHOOSE x \in set : TRUE})

\* how far the inputs of a run are from a clean repository reviewed with
\* default options
InputCost(in) ==
  Card({f \in DOMAIN in.contents : in.contents[f] # CleanContent})
    + (IF in.reportAll THEN 1 ELSE 0)
    + (IF in.hasProjectEslint THEN 0 ELSE 1)
    + (IF in.versions = [project |-> TsVersion, review |-> TsVersion] THEN 0 ELSE 1)

Inputs ==
  UNION {
    LET files == SubSeq(FilePool, 1, n)
        abs == Range(AbsFiles(files))
    IN {in \in [files : {files},
                reportAll : BOOLEAN,
                hasProjectEslint : BOOLEAN,
                versions : VersionPairs,
                contents : {c \in [abs -> UNION {Contents(f) : f \in abs}] :
                              \A f \in abs : c[f] \in Contents(f)}] :
          InputCost(in) <= MaxDeviations}
    : n \in 0..MaxFiles}

InitReview ==
  /\ IdleUtil
  /\ IdleLimiter
  /\ IdleEslint
  /\ rvIn \in Inputs
  /\ rvDev = InputCost(rvIn)
  /\ rvPc = "preflight"
  /\ rvTools = [t \in ToolNames |-> [state |-> "idle"]]
  /\ rvLint = [chunk |-> 0, eslintMap |-> EmptyMap, eslintSkipped |-> FALSE,
               outs |-> <<>>, threw |-> FALSE]
  /\ rvWarnings = TDZ
  /\ rvResults = <<>>
  /\ rvAgg = EmptyMap
  /\ rvReport = NoReport
  /\ rvExit = -1
  /\ rvStarted = {}
  /\ rvStderr = <<>>

\* the lines console.error prints on a version mismatch
MismatchMessage(projectVersion) ==
  <<"TypeScript version mismatch detected between project and review environment.",
    "To align, run:",
    "  cmd /c npm i --prefix .windsurf\\review typescript@"
      \o (IF projectVersion = "" THEN "<project_version>" ELSE projectVersion)>>

\* the TypeScript version preflight: exit 1 unless both versions are known
\* and equal
Preflight ==
  /\ rvPc = "preflight"
  /\ rvStarted' = rvStarted \cup {"projectTscVersion", "reviewTscVersion"}
  /\ IF versionsEqual(rvIn.versions.project, rvIn.versions.review)
     THEN rvPc' = "launch" /\ rvExit' = rvExit /\ rvStderr' = rvStderr
     ELSE /\ rvPc' = "exited"
          /\ rvExit' = 1
          /\ rvStderr' = rvStderr \o MismatchMessage(rvIn.versions.project)
  /\ UNCHANGED <<rvIn, rvDev, rvTools, rvLint, rvWarnings, rvResults, rvAgg, rvReport>>
  /\ UNCHANGED <<limVars, ebVars, utilVars>>

\* from the start of the repo-wide analyzers to the first await of main: the
\* five async functions run up to their first await, repoWarnings is
\* declared, and the ESLint batch is skipped or its first chunk is started
Launch ==
  /\ rvPc = "launch"
  /\ LET repoGate == IF rvIn.hasProjectEslint THEN Pending
                     ELSE IF EslintRepoNoConfig(rvWarnings).rejected THEN Rejected
                     ELSE Fulfilled(CleanEslintRepo, EslintRepoNoConfig(rvWarnings).data)
         lintStarts == rvIn.hasProjectEslint /\ rvIn.files # <<>>
     IN /\ rvTools' = [t \in ToolNames |-> IF t = "eslintRepo" THEN repoGate ELSE Pending]
        /\ rvStarted' = rvStarted \cup {"knip", "jscpd", "tsc", "tscProject"}
                          \cup (IF rvIn.hasProjectEslint THEN {"eslintRepo"} ELSE {})
                          \cup (IF lintStarts THEN {"eslintBatch"} ELSE {})
        /\ rvWarnings' = IF rvIn.hasProjectEslint THEN Declared
                         ELSE Push(Declared, "Project ESLint config not found; ESLint step skipped.")
        /\ rvLint' = [rvLint EXCEPT !.eslintSkipped = ~rvIn.hasProjectEslint,
                                    !.chunk = IF lintStarts THEN 1 ELSE 0]
        /\ rvPc' = IF lintStarts THEN "lintAwait" ELSE "perFile"
  /\ UNCHANGED <<rvIn, rvDev, rvResults, rvAgg, rvReport, rvExit, rvStderr>>
  /\ UNCHANGED <<limVars, ebVars, utilVars>>

\* the timeout option of each subprocess invocation, in milliseconds (0: the
\* child_process default, no timeout): only runEslintBatch passes one
ESLINT_TIMEOUT == 180000

ExecTimeout(invocation) == IF invocation = "eslintBatch" THEN ESLINT_TIMEOUT ELSE 0

\* what execAsync rejects with when the timeout kills the subprocess: the
\* signal's exit status and nothing on standard output
KilledByTimeout == [exit |-> 143, stderr |-> "", stdout |-> StdoutEmpty]

\* the continuation of main after `await runEslintBatch(chunk)` for a
\* subprocess that ended as o: merge the partial map and go on to the next
\* chunk, or catch the error, record the warning and mark the step skipped
LintResume(o) ==
  LET chunks == Chunks(AbsFiles(rvIn.files))
      chunk == chunks[rvLint.chunk]
      res == LintChunk(chunk, o)
  IN /\ rvDev + LintCost(chunk, o) <= MaxDeviations
     /\ rvDev' = rvDev + LintCost(chunk, o)
     /\ IF res.kind = "returned"
        THEN /\ rvLint' = [rvLint EXCEPT !.eslintMap = MapMerge(@, res.map),
                                         !.outs = Append(@, o),
                                         !.chunk = IF @ < Len(chunks) THEN @ + 1 ELSE 0]
             /\ rvPc' = IF rvLint.chunk < Len(chunks) THEN "lintAwait" ELSE "perFile"
             /\ rvWarnings' = rvWarnings
             /\ rvStderr' = rvStderr
        ELSE /\ rvLint' = [rvLint EXCEPT !.outs = Append(@, o), !.chunk = 0,
                                         !.eslintSkipped = TRUE, !.threw = TRUE]
             /\ rvPc' = "perFile"
             /\ rvWarnings' = Push(rvWarnings, "ESLint batch degraded")
             /\ rvStderr' = Append(rvStderr, "ESLint batch failed")
     /\ UNCHANGED <<rvIn, rvTools, rvResults, rvAgg, rvReport, rvExit, rvStarted>>
     /\ UNCHANGED <<limVars, ebVars, utilVars>>

\* await runEslintBatch(chunk) resumes after the subprocess has exited
LintDone ==
  /\ rvPc = "lintAwait"
  /\ \E o \in LintOutcomes(Chunks(AbsFiles(rvIn.files))[rvLint.chunk]) : LintResume(o)

\* the per-file pass: mapLimit over absFiles with a mapper that takes no
\* asynchronous step
PerFilePass ==
  /\ rvPc = "perFile"
  /\ rvResults' = [i \in 1..Len(rvIn.files) |->
                     PerFile(AbsPath(rvIn.files[i]), rvIn.contents[AbsPath(rvIn.files[i])],
                             rvLint.eslintMap)]
  /\ rvPc' = "join"
  /\ UNCHANGED <<rvIn, rvDev, rvTools, rvLint, rvWarnings, rvAgg, rvReport, rvExit, rvStarted, rvStderr>>
  /\ UNCHANGED <<limVars, ebVars, utilVars>>

MainAwaits == rvPc \in {"lintAwait", "join"}

KnipDone ==
  /\ MainAwaits
  /\ rvTools["knip"].state = "pending"
  /\ \E o \in KnipOutcomes(rvIn.files) :
       /\ rvDev + KnipCost(o) <= MaxDeviations
       /\ rvDev' = rvDev + KnipCost(o)
       /\ rvTools' = [rvTools EXCEPT !["knip"] = Fulfilled(o, runKnip(o))]
  /\ UNCHANGED <<rvPc, rvIn, rvLint, rvWarnings, rvResults, rvAgg, rvReport, rvExit, rvStarted, rvStderr>>
  /\ UNCHANGED <<limVars, ebVars, utilVars>>

JscpdDone ==
  /\ MainAwaits
  /\ rvTools["jscpd"].state = "pending"
  /\ \E o \in JscpdOutcomes(rvIn.files) :
       /\ rvDev + JscpdCost(o) <= MaxDeviations
       /\ rvDev' = rvDev + JscpdCost(o)
       /\ rvTools' = [rvTools EXCEPT !["jscpd"] = Fulfilled(o, runJscpd(o))]
  /\ UNCHANGED <<rvPc, rvIn, rvLint, rvWarnings, rvResults, rvAgg, rvReport, rvExit, rvStarted, rvStderr>>
  /\ UNCHANGED <<limVars, ebVars, utilVars>>

\* pTsc (the resolved tsconfig) or pTscProject (the project tsconfig) settles
TscDone(t) ==
  /\ MainAwaits
  /\ rvTools[t].state = "pending"
  /\ \E o \in TscOutcomes(rvIn.files) :
       /\ rvDev + TscCost(o) <= MaxDeviations
       /\ rvDev' = rvDev + TscCost(o)
       /\ rvTools' = [rvTools EXCEPT ![t] = Fulfilled(o, runTsc(o))]
  /\ UNCHANGED <<rvPc, rvIn, rvLint, rvWarnings, rvResults, rvAgg, rvReport, rvExit, rvStarted, rvStderr>>
  /\ UNCHANGED <<limVars, ebVars, utilVars>>

EslintRepoDone ==
  /\ MainAwaits
  /\ rvTools["eslintRepo"].state = "pending"
  /\ \E o \in EslintRepoOutcomes :
       LET r == EslintRepoSettle(o, rvWarnings)
       IN /\ rvDev + EslintRepoCost(o) <= MaxDeviations
          /\ rvDev' = rvDev + EslintRepoCost(o)
          /\ rvTools' = [rvTools EXCEPT !["eslintRepo"] =
                           IF r.rejected THEN Rejected ELSE Fulfilled(o, r.data)]
          /\ rvWarnings' = r.warnings
  /\ UNCHANGED <<rvPc, rvIn, rvLint, rvResults, rvAgg, rvReport, rvExit, rvStarted, rvStderr>>
  /\ UNCHANGED <<limVars, ebVars, utilVars>>

\* Promise.all over the five promises rejects: main rejects and the process
\* exits with "Fatal error"
JoinRejected ==
  /\ rvPc = "join"
  /\ \E t \in ToolNames : rvTools[t].state = "rejected"
  /\ rvPc' = "exited"
  /\ rvExit' = 1
  /\ rvStderr' = Append(rvStderr, "Fatal error")
  /\ UNCHANGED <<rvIn, rvDev, rvTools, rvLint, rvWarnings, rvResults, rvAgg, rvReport, rvStarted>>
  /\ UNCHANGED <<limVars, ebVars, utilVars>>

\* a join that waits for the compiler run only
JoinAttachEarly ==
  /\ rvPc = "join"
  /\ rvTools["tsc"].state = "fulfilled"
  /\ rvResults' = AttachTsc(rvResults, rvTools["tsc"].data)
  /\ rvPc' = "knipMerge"
  /\ UNCHANGED <<rvIn, rvDev, rvTools, rvLint, rvWarnings, rvAgg, rvReport, rvExit, rvStarted, rvStderr>>
  /\ UNCHANGED <<limVars, ebVars, utilVars>>

\* Promise.all over the five promises fulfils, then Attach TSC per-file
JoinAttach ==
  /\ rvPc = "join"
  /\ \A t \in ToolNames : rvTools[t].state = "fulfilled"
  /\ rvResults' = AttachTsc(rvResults, rvTools["tsc"].data)
  /\ rvPc' = "knipMerge"
  /\ UNCHANGED <<rvIn, rvDev, rvTools, rvLint, rvWarnings, rvAgg, rvReport, rvExit, rvStarted, rvStderr>>
  /\ UNCHANGED <<limVars, ebVars, utilVars>>

KnipMerge ==
  /\ rvPc = "knipMerge"
  /\ LET knipAgg == applyKnipToResults(rvResults, rvTools["knip"].data)
     IN /\ rvResults' = knipAgg.results
        /\ rvAgg' = MapMerge(rvAgg, [knip |-> [summary |-> knipAgg.summary, details |-> knipAgg.details]])
  /\ rvPc' = "jscpdMerge"
  /\ UNCHANGED <<rvIn, rvDev, rvTools, rvLint, rvWarnings, rvReport, rvExit, rvStarted, rvStderr>>
  /\ UNCHANGED <<limVars, ebVars, utilVars>>

JscpdMerge ==
  /\ rvPc = "jscpdMerge"
  /\ LET jscpdAgg == applyJscpdToResults(rvResults, rvTools["jscpd"].data)
     IN /\ rvResults' = jscpdAgg.results
        /\ rvAgg' = MapMerge(rvAgg, [jscpd |-> [summary |-> jscpdAgg.summary]])
  /\ rvPc' = "report"
  /\ UNCHANGED <<rvIn, rvDev, rvTools, rvLint, rvWarnings, rvReport, rvExit, rvStarted, rvStderr>>
  /\ UNCHANGED <<limVars, ebVars, utilVars>>

\* repoSummary of main
RepoSummary(filteredTotalErrors, projectTotalErrors, eslintRepoData, knipSummary, jscpdSummary) ==
  [knip |-> knipSummary,
   jscpd |-> jscpdSummary,
   tsc |-> [totalErrors |-> filteredTotalErrors],
   tscProject |-> [totalErrors |-> projectTotalErrors],
   eslintRepo |-> [totalErrors |-> Num(eslintRepoData, "totalErrors"),
                   totalWarnings |-> Num(eslintRepoData, "totalWarnings")]]

\* generateMinimalSummary: the two status lines and the footer of the text
generateMinimalSummary(results, repo) ==
  LET failedFiles == SelectSeq(results, FileFails)
      k == repo.knip
      j == repo.jscpd
      knipPass == /\ Num(k, "unusedFiles") = 0 /\ Num(k, "unusedExports") = 0
                  /\ Num(k, "unusedTypes") = 0 /\ Num(k, "unusedExportedTypes") = 0
                  /\ Num(k, "unusedEnumMembers") = 0 /\ Num(k, "unusedClassMembers") = 0
                  /\ Num(k, "unlistedDependencies") = 0 /\ Num(k, "unresolvedImports") = 0
      jscpdPass == /\ Num(j, "groups") = 0 /\ Num(j, "duplicatedLines") = 0
                   /\ Num(j, "percentage") = 0
      tscPass == Num(repo.tsc, "totalErrors") = 0
      repoChecksFailed == (IF knipPass THEN 0 ELSE 1) + (IF jscpdPass THEN 0 ELSE 1)
                            + (IF tscPass THEN 0 ELSE 1)
      perFileStatus == Status(Len(failedFiles) # 0)
      repoStatus == Status(repoChecksFailed # 0)
      overallStatus == Status(~(perFileStatus = "PASS" /\ repoStatus = "PASS"))
  IN [files |-> [total |-> Len(results), failed |-> Len(failedFiles)],
      perFileStatus |-> perFileStatus,
      repoStatus |-> repoStatus,
      footer |-> IF overallStatus = "FAIL" THEN "AI ACTION REQUIRED" ELSE "Report written"]

\* from the violation totals to writeJson
WriteReport ==
  /\ rvPc = "report"
  /\ LET filteredTotalErrors == TotalErrors(rvTools["tsc"].data)
         projectTotalErrors == TotalErrors(rvTools["tscProject"].data)
         eslintRepoData == rvTools["eslintRepo"].data
         anyViolation == \/ perFileViolation(rvResults)
                         \/ repoViolation(filteredTotalErrors, projectTotalErrors, eslintRepoData,
                                          rvAgg.knip.summary, rvAgg.jscpd.summary)
         written == resultsToWrite(rvResults, anyViolation, rvIn.reportAll, filteredTotalErrors)
         minimalResults == [k \in 1..Len(written) |-> minimalizeFile(written[k])]
         repo == repoOut(filteredTotalErrors, eslintRepoData, rvAgg.knip.summary,
                         rvAgg.jscpd.summary, rvWarnings.list)
         repoSummary == RepoSummary(filteredTotalErrors, projectTotalErrors, eslintRepoData,
                                    rvAgg.knip.summary, rvAgg.jscpd.summary)
     IN rvReport' = [written |-> TRUE, anyViolation |-> anyViolation,
                     console |-> generateMinimalSummary(rvResults, repoSummary),
                     payload |-> Payload(anyViolation, minimalResults, repo)]
  /\ rvPc' = "exit"
  /\ UNCHANGED <<rvIn, rvDev, rvTools, rvLint, rvWarnings, rvResults, rvAgg, rvExit, rvStarted, rvStderr>>
  /\ UNCHANGED <<limVars, ebVars, utilVars>>

\* process.exit(anyViolation ? 1 : 0)
Exit ==
  /\ rvPc = "exit"
  /\ rvExit' = IF rvReport.anyViolation THEN 1 ELSE 0
  /\ rvPc' = "exited"
  /\ UNCHANGED <<rvIn, rvDev, rvTools, rvLint, rvWarnings, rvResults, rvAgg, rvReport, rvStarted, rvStderr>>
  /\ UNCHANGED <<limVars, ebVars, utilVars>>

NextReview ==
  \/ Preflight
  \/ Launch
  \/ LintDone
  \/ PerFilePass
  \/ KnipDone
  \/ JscpdDone
  \/ TscDone("tsc")
  \/ TscDone("tscProject")
  \/ EslintRepoDone
  \/ JoinRejected
  \/ JoinAttach
  \/ KnipMerge
  \/ JscpdMerge
  \/ WriteReport
  \/ Exit

SpecReview == InitReview /\ [][NextReview]_vars

\* ------------------------------------------- subprocesses that never exit
\* one of the `tsc -v` probes never exits: getTsVersion passes no timeout, so
\* its await never resumes
ProbeHangs ==
  /\ rvPc = "preflight"
  /\ ExecTimeout("projectTscVersion") = 0
  /\ rvDev + 1 <= MaxDeviations
  /\ rvDev' = rvDev + 1
  /\ rvStarted' = rvStarted \cup {"projectTscVersion"}
  /\ rvPc' = "probeAwait"
  /\ UNCHANGED <<rvIn, rvTools, rvLint, rvWarnings, rvResults, rvAgg, rvReport, rvExit, rvStderr>>
  /\ UNCHANGED <<limVars, ebVars, utilVars>>

\* the subprocess of a repo-wide tool never exits: without a timeout its
\* promise stays pending for ever
ToolHangs(t) ==
  /\ MainAwaits
  /\ rvTools[t].state = "pending"
  /\ ExecTimeout(t) = 0
  /\ rvDev + 1 <= MaxDeviations
  /\ rvDev' = rvDev + 1
  /\ rvTools' = [rvTools EXCEPT ![t] = [state |-> "hung"]]
  /\ UNCHANGED <<rvPc, rvIn, rvLint, rvWarnings, rvResults, rvAgg, rvReport, rvExit,
                 rvStarted, rvStderr>>
  /\ UNCHANGED <<limVars, ebVars, utilVars>>

\* the ESLint subprocess of a chunk never exits: the timeout kills it and
\* execAsync rejects
LintTimesOut ==
  /\ rvPc = "lintAwait"
  /\ ExecTimeout("eslintBatch") > 0
  /\ LintResume(KilledByTimeout)

\* runs over at most one clean file in default mode
InitTimeouts ==
  /\ InitReview
  /\ Len(rvIn.files) <= 1
  /\ ~rvIn.reportAll
  /\ \A f \in DOMAIN rvIn.contents : rvIn.contents[f] = CleanContent

NextTimeouts ==
  \/ NextReview
  \/ ProbeHangs
  \/ \E t \in ToolNames : ToolHangs(t)
  \/ LintTimesOut

\* the event loop runs whatever continuation is ready, and a subprocess
\* either exits or is one of those that never exit
SpecTimeouts == InitTimeouts /\ [][NextTimeouts]_vars /\ WF_vars(NextTimeouts)

\* ------------------------------------------------------ claims on the run
Reported == rvReport.written

\* the per-file results have been through the merge phase
Merged == rvPc \in {"report", "exit"} \/ (rvPc = "exited" /\ Reported)

\* the categories of an analyzed file whose status is failing
FailingCategories(r) ==
  {c \in {"size", "comments", "consoleErrors", "typescript", "fallbackData",
          "typescriptCompiler", "deadCode", "duplicates"} :
     Has(r, c) /\ r[c].status = "FAIL"}
    \cup (IF r.eslint.errors # <<>> \/ r.eslint.warnings # <<>> THEN {"eslint"} ELSE {})

\* a knip issue entry that reports at least one finding
ItemHasFinding(item) ==
  \/ item.exports # <<>> \/ item.types # <<>>
  \/ CountMembers(item.enumMembers) > 0 \/ CountMembers(item.classMembers) > 0
  \/ item.unlisted # <<>> \/ item.unresolved # <<>>

\* the repo-wide gates that failed, read off what the tools returned
FailedGates ==
  {t \in {"tsc", "tscProject"} : rvTools[t].data.totalErrors > 0}
    \cup {t \in {"eslintRepo"} : rvTools[t].data.totalErrors > 0}
    \cup {t \in {"knip"} :
            LET d == rvTools[t].data
            IN \/ Has(d, "files") /\ d.files # <<>>
               \/ Has(d, "issues") /\ \E k \in 1..Len(d.issues) : ItemHasFinding(d.issues[k])}
    \cup {t \in {"jscpd"} :
            LET d == rvTools[t].data
            IN Has(d, "duplicates") /\ d.duplicates # <<>>}

C2_ReportEmptiness ==
  Reported =>
    (rvReport.payload.summary.status = "pass"
       <=> (rvReport.payload.results = <<>> /\ ~Has(rvReport.payload, "repo")))

\* whether the merged dead-code record of a file holds any finding
DeadCodeFindings(dc) ==
  \/ Has(dc, "unusedFile") /\ dc.unusedFile
  \/ Num(dc, "unusedExports") > 0 \/ Num(dc, "unusedTypes") > 0
  \/ Num(dc, "unusedExportedTypes") > 0
  \/ Has(dc, "unresolvedImportSpecifiers") /\ dc.unresolvedImportSpecifiers # <<>>
  \/ Has(dc, "unlistedDependencyModules") /\ dc.unlistedDependencyModules # <<>>
  \/ Has(dc, "unusedEnumMemberNames") \/ Has(dc, "unusedClassMemberNames")

\* the categories of a merged result whose finding list is non-empty
CategoriesWithFindings(r) ==
  (IF r.comments.violations # <<>> THEN {"comments"} ELSE {})
    \cup (IF r.consoleErrors.violations # <<>> THEN {"consoleErrors"} ELSE {})
    \cup (IF r.fallbackData.violations # <<>> THEN {"fallbackData"} ELSE {})
    \cup (IF r.typescript.details # <<>> THEN {"typescript"} ELSE {})
    \cup (IF r.typescriptCompiler.errors # <<>> THEN {"typescriptCompiler"} ELSE {})
    \cup (IF DeadCodeFindings(r.deadCode) THEN {"deadCode"} ELSE {})
    \cup (IF r.duplicates.segments # <<>> THEN {"duplicates"} ELSE {})

\* C7: after the merge phase, for every analyzed file and every category that
\* carries a status (comments, console, fallback, missing-return-type,
\* compiler diagnostics, dead-code, duplicates), the status is FAIL if and
\* only if that category's finding list for the file is non-empty.
C7_StatusMatchesFindings ==
  Merged =>
    \A i \in 1..Len(rvResults) :
      FailingCategories(rvResults[i]) \ {"size", "eslint"}
        = CategoriesWithFindings(rvResults[i])

\* a compiler run that failed without printing a single diagnostic
TscFault(o) == o.exit # 0 /\ \A k \in 1..Len(o.lines) : o.lines[k].kind \in {"blank", "noise"}

\* the repo-wide tools that could not be run or whose output could not be
\* parsed
FaultyTools ==
  {t \in {"knip", "jscpd"} : rvTools[t].state = "fulfilled" /\ Has(rvTools[t].data, "error")}
    \cup {t \in {"tsc", "tscProject"} : rvTools[t].state = "fulfilled" /\ TscFault(rvTools[t].out)}

\* C8: if the dead-code detector, the duplicate detector or the compiler
\* cannot be run, or its output cannot be parsed even after the non-zero-exit
\* recovery attempt, the run never ends with report status "pass".
C8_ToolFaultBlocksPass ==
  (Reported /\ FaultyTools # {}) => rvReport.payload.summary.status # "pass"

\* the report carries the error of the failed lint step
LintErrorReported ==
  /\ Reported
  /\ Has(rvReport.payload, "repo")
  /\ Has(rvReport.payload.repo, "warnings")
  /\ \E k \in 1..Len(rvReport.payload.repo.warnings) :
       rvReport.payload.repo.warnings[k] = "ESLint batch degraded"

\* analyzed files whose lint result is the empty stub, not an entry of the
\* batch map
StubLinted ==
  {i \in 1..Len(rvResults) : rvResults[i].filePath \notin DOMAIN rvLint.eslintMap}

\* C9: if the lint batch step fails hard, the run fails with a non-zero exit
\* and reports the lint error, and no analyzed file is given an empty
\* (passing) lint result as a per-file fallback for the failed step.
C9_LintFailureFailsRun ==
  (rvPc = "exited" /\ rvLint.threw) =>
    /\ rvExit # 0
    /\ LintErrorReported
    /\ StubLinted = {}

\* ------------------------------------------ claims C11..C20
\* a sub-batch whose subprocess exited non-zero and printed a JSON array of
\* file entries on standard output
ExitedWithDiagnostics(o) ==
  /\ o # NotRun
  /\ o.exit # 0
  /\ o.stdout.kind = "array"

\* the map of a printed array: the last entry of each file path, its messages
\* split by severity
DiagnosticsMap(entries) ==
  [f \in {entries[k].filePath : k \in 1..Len(entries)} |->
     LET ks == {k \in 1..Len(entries) : entries[k].filePath = f}
         last == CHOOSE k \in ks : \A m \in ks : m <= k
     IN [errors |-> Entries(SelectSeq(entries[last].messages, IsErr)),
         warnings |-> Entries(SelectSeq(entries[last].messages, IsWarn))]]

\* C11: when every lint subprocess of a call exits non-zero with a JSON array
\* on standard output, runEslintBatch returns (it does not throw) and the map
\* it returns is the one parsed from the printed arrays, later sub-batches
\* overriding earlier ones.
C11_NonZeroExitWithDiagnosticsSucceeds ==
  (/\ ebPc = "done"
   /\ ebFiles # <<>>
   /\ \A k \in 1..Len(ebOuts) : ebOuts[k] = NotRun \/ ExitedWithDiagnostics(ebOuts[k]))
    => /\ ebResult.kind = "returned"
       /\ \A k \in 1..Len(ebOuts) : ExitedWithDiagnostics(ebOuts[k])
       /\ ebResult.map =
            MergeMaps([k \in 1..Len(ebOuts) |-> DiagnosticsMap(ebOuts[k].stdout.entries)])

\* a call whose only subprocess exited 1 with stderr text and an array that
\* reports an error, and that returned a non-empty map
C11_Witness ==
  /\ ebPc = "done"
  /\ Len(ebOuts) = 1
  /\ ExitedWithDiagnostics(ebOuts[1])
  /\ ebOuts[1].exit = 1
  /\ ebOuts[1].stderr # ""
  /\ ebResult.kind = "returned"
  /\ \E f \in DOMAIN ebResult.map : Len(ebResult.map[f].errors) = 1


\* analyzed files whose lint result carries a finding
LintAttributed ==
  {i \in 1..Len(rvResults) :
     rvResults[i].eslint.errors # <<>> \/ rvResults[i].eslint.warnings # <<>>}

\* the lint step ran and is reported as successful: every chunk returned
LintStepSucceeded ==
  /\ "eslintBatch" \in rvStarted
  /\ rvPc \notin {"lintAwait", "perFile"}
  /\ ~rvLint.eslintSkipped

\* after a chunk of the lint step failed, no analyzed file carries a lint
\* finding
FailedStepAttributesNothing ==
  (rvLint.threw /\ rvPc # "perFile") => LintAttributed = {}

\* after a lint step that is reported as successful, every analyzed file has
\* its entry of the batch map
SuccessfulStepDropsNoFile ==
  LintStepSucceeded => StubLinted = {}

\* C12: if any one chunk of the lint step fails, the whole step fails: no lint
\* finding of an earlier chunk is attributed to a file; and no target file is
\* missing from the map of a step that is reported as successful.
C12_FailedChunkFailsWholeStep ==
  /\ FailedStepAttributesNothing
  /\ SuccessfulStepDropsNoFile


\* the warnings of the emitted report
ReportWarnings ==
  IF Reported /\ Has(rvReport.payload, "repo") /\ Has(rvReport.payload.repo, "warnings")
  THEN Range(rvReport.payload.repo.warnings)
  ELSE {}

\* a run that got past the version preflight in a project without an ESLint
\* configuration, and has ended
EndedWithoutLintConfig ==
  /\ rvPc = "exited"
  /\ ~rvIn.hasProjectEslint
  /\ versionsEqual(rvIn.versions.project, rvIn.versions.review)

\* C13: when the project has no discoverable ESLint configuration the run
\* completes normally: a report is written, no file carries a lint finding,
\* the repo-wide lint gate counts nothing, the skip message is among the
\* report's warnings, and the status is "pass" with exit code 0 whenever no
\* file and no other gate fails.
C13_NoLintConfigRunCompletes ==
  EndedWithoutLintConfig =>
    /\ Reported
    /\ LintAttributed = {}
    /\ rvTools["eslintRepo"].state = "fulfilled"
    /\ rvTools["eslintRepo"].data.totalErrors = 0
    /\ "Project ESLint config not found; ESLint step skipped." \in ReportWarnings
    /\ ((\A i \in 1..Len(rvResults) : FailingCategories(rvResults[i]) = {}) /\ FailedGates = {})
         => (rvReport.payload.summary.status = "pass" /\ rvExit = 0)


\* the project's and the review toolchain's compiler versions differ, or one
\* of them could not be determined
VersionMismatch ==
  \/ rvIn.versions.project = ""
  \/ rvIn.versions.review = ""
  \/ rvIn.versions.project # rvIn.versions.review

\* the lint, compiler, dead-code and duplicate invocations of a run
ToolInvocations == {"eslintBatch", "eslintRepo", "tsc", "tscProject", "knip", "jscpd"}

KnipMerged == rvPc \in {"jscpdMerge", "report", "exit"} \/ Reported

\* the symbols an issue entry reports as dead-code candidates: unused exports
\* and unused types
ReportedCandidates(item) == Range(item.exports) \cup Range(item.types)

\* the names a file's deadCode lists as unused-exported
UnusedExportedNames(dc) ==
  IF Has(dc, "unusedExportedTypeNames") THEN Range(dc.unusedExportedTypeNames) ELSE {}

\* the names a file's deadCode lists as unused
UnusedNames(dc) ==
  IF Has(dc, "unusedTypeNames") THEN Range(dc.unusedTypeNames) ELSE {}

\* C15: after the dead-code merge, every candidate symbol (unused export or
\* unused type) reported for an analyzed file whose name occurs two or more
\* times as a whole word in that file's text is listed as unused-exported in
\* the file's deadCode, and is not listed as unused.
C15_InternallyUsedIsUnusedExported ==
  (KnipMerged /\ Has(rvTools["knip"].data, "issues")) =>
    \A k \in 1..Len(rvTools["knip"].data.issues) :
      \A i \in 1..Len(rvResults) :
        LET item == rvTools["knip"].data.issues[k]
        IN rvResults[i].relPath = toRepoRelative(item.file) =>
             \A c \in ReportedCandidates(item) :
               c.occurrences >= 2 =>
                 /\ c.name \in UnusedExportedNames(rvResults[i].deadCode)
                 /\ c.name \notin UnusedNames(rvResults[i].deadCode)

\* the same statement for the reported types alone
TypesInternallyUsedAreUnusedExported ==
  (KnipMerged /\ Has(rvTools["knip"].data, "issues")) =>
    \A k \in 1..Len(rvTools["knip"].data.issues) :
      \A i \in 1..Len(rvResults) :
        LET item == rvTools["knip"].data.issues[k]
        IN rvResults[i].relPath = toRepoRelative(item.file) =>
             \A c \in Range(item.types) :
               c.occurrences >= 2 =>
                 /\ c.name \in UnusedExportedNames(rvResults[i].deadCode)
                 /\ c.name \notin UnusedNames(rvResults[i].deadCode)


\* applyJscpdToResults has run on the per-file results
JscpdMerged == rvPc \in {"report", "exit"} \/ Reported

\* the clones the duplicate detector returned
ReportedDups ==
  IF Has(rvTools["jscpd"].data, "duplicates") THEN rvTools["jscpd"].data.duplicates ELSE <<>>

\* the keys of segmentsByFile
Participants(dups) ==
  {toRepoRelative(dups[k].firstFile.name) : k \in 1..Len(dups)}
    \cup {toRepoRelative(dups[k].secondFile.name) : k \in 1..Len(dups)}

\* the segment records filed under fileRel: those of the file's result when
\* the file was analyzed, else the entry of segmentsByFile
FiledUnder(fileRel) ==
  IF \E i \in 1..Len(rvResults) : rvResults[i].relPath = fileRel
  THEN rvResults[CHOOSE i \in 1..Len(rvResults) : rvResults[i].relPath = fileRel].duplicates.segments
  ELSE SegmentsOf(ReportedDups, fileRel)

\* s is the record of the span `mine` of a clone, pointing at `theirs` in other
RecordOf(s, dup, mine, theirs, other) ==
  /\ s.otherFile = other
  /\ s.startLine = mine.start /\ s.endLine = mine.end
  /\ s.otherStartLine = theirs.start /\ s.otherEndLine = theirs.end
  /\ s.lines = dup.lines /\ s.tokens = dup.tokens

\* C16: after the duplicate merge, every clone has two segment records, one
\* filed under its first file and one under its second file, each naming the
\* other file and the other record's start and end lines, both with the
\* clone's lines and tokens; and there are no other records: the records of
\* all files number twice the clones.
C16_SegmentsMirrorEachOther ==
  JscpdMerged =>
    /\ \A k \in 1..Len(ReportedDups) :
         LET dup == ReportedDups[k]
             firstRel == toRepoRelative(dup.firstFile.name)
             secondRel == toRepoRelative(dup.secondFile.name)
             a == FiledUnder(firstRel)
             b == FiledUnder(secondRel)
         IN \E m \in 1..Len(a), n \in 1..Len(b) :
              /\ firstRel = secondRel => m # n
              /\ RecordOf(a[m], dup, dup.firstFile, dup.secondFile, secondRel)
              /\ RecordOf(b[n], dup, dup.secondFile, dup.firstFile, firstRel)
              /\ a[m].otherStartLine = b[n].startLine /\ a[m].otherEndLine = b[n].endLine
              /\ b[n].otherStartLine = a[m].startLine /\ b[n].otherEndLine = a[m].endLine
              /\ a[m].lines = b[n].lines /\ a[m].tokens = b[n].tokens
    /\ \A f \in Participants(ReportedDups) :
         Len(FiledUnder(f)) =
           Card({k \in 1..Len(ReportedDups) : toRepoRelative(ReportedDups[k].firstFile.name) = f})
             + Card({k \in 1..Len(ReportedDups) : toRepoRelative(ReportedDups[k].secondFile.name) = f})
    /\ \A i \in 1..Len(rvResults) :
         rvResults[i].relPath \notin Participants(ReportedDups)
           => rvResults[i].duplicates.segments = <<>>

\* a clone between two analyzed files, each of which got its record
C16_Witness ==
  /\ JscpdMerged
  /\ Len(ReportedDups) = 1
  /\ Len(rvResults) = 2
  /\ rvResults[1].duplicates.count = 1
  /\ rvResults[2].duplicates.count = 1
  /\ rvResults[1].duplicates.segments[1].otherFile = rvResults[2].relPath
  /\ rvResults[2].duplicates.segments[1].otherFile = rvResults[1].relPath


\* a report with status "fail" has been written
FailReported == Reported /\ rvReport.payload.summary.status = "fail"

\* the paths of the report's results list, in order
ListedPaths ==
  [k \in 1..Len(rvReport.payload.results) |-> rvReport.payload.results[k].relPath]

\* the paths of the analyzed files the report is to list: those with a failing
\* category, or all of them in full-report mode
ExpectedPaths ==
  LET kept == IF rvIn.reportAll THEN rvResults
              ELSE SelectSeq(rvResults, LAMBDA r : FailingCategories(r) # {})
  IN [k \in 1..Len(kept) |-> kept[k].relPath]

\* C17 as stated: in a fail report the results list holds exactly the analyzed
\* files with at least one failing category when full-report mode is off, and
\* every analyzed file when it is on.
C17_ResultsAreFailingFiles ==
  FailReported => ListedPaths = ExpectedPaths

\* C17, amended: in a fail report the results list holds exactly the analyzed
\* files with at least one failing category (every analyzed file in
\* full-report mode), except that when this list is empty and the compiler
\* run on the resolved tsconfig counted errors, the results list holds the
\* single synthetic entry "__global__".
C17_ResultsAreFailingFilesOrSynthetic ==
  FailReported =>
    IF ExpectedPaths = <<>> /\ TotalErrors(rvTools["tsc"].data) > 0
    THEN ListedPaths = <<"__global__">>
    ELSE ListedPaths = ExpectedPaths

\* a fail report in default mode over two analyzed files of which one fails
C17_Witness ==
  /\ FailReported
  /\ ~rvIn.reportAll
  /\ Len(rvResults) = 2
  /\ Len(rvReport.payload.results) = 1
  /\ \E i \in 1..2 : FailingCategories(rvResults[i]) = {}


\* the source an Issue record of a category carries
IssueSource(category) ==
  CASE category = "size" -> "size"
    [] category = "eslint" -> "eslint"
    [] category = "comments" -> "comments"
    [] category = "consoleErrors" -> "console"
    [] category = "typescript" -> "ts-heuristics"
    [] category = "typescriptCompiler" -> "tsc"
    [] category = "fallbackData" -> "fallback"
    [] category = "duplicates" -> "jscpd"
    [] category = "deadCode" -> "knip"

\* the sources of the Issue records of a results entry
IssueSources(entry) ==
  IF Has(entry, "issues") THEN {entry.issues[k].source : k \in 1..Len(entry.issues)} ELSE {}

\* every failing category among `categories` of every analyzed file listed in
\* a fail report has an Issue record in that file's entry
ListedFailuresHaveIssues(categories) ==
  FailReported =>
    \A k \in 1..Len(rvReport.payload.results) :
      \A i \in 1..Len(rvResults) :
        rvResults[i].relPath = rvReport.payload.results[k].relPath =>
          \A c \in FailingCategories(rvResults[i]) \cap categories :
            IssueSource(c) \in IssueSources(rvReport.payload.results[k])

AllCategories ==
  {"size", "eslint", "comments", "consoleErrors", "typescript", "typescriptCompiler",
   "fallbackData", "duplicates", "deadCode"}

\* C18: in a fail report every failing category of every listed file has at
\* least one Issue record in that file's issues list, and with full-report
\* mode off every entry of results has a non-empty issues list.
C18_FailingCategoriesHaveIssues ==
  /\ ListedFailuresHaveIssues(AllCategories)
  /\ (FailReported /\ ~rvIn.reportAll) =>
       \A k \in 1..Len(rvReport.payload.results) :
         /\ Has(rvReport.payload.results[k], "issues")
         /\ rvReport.payload.results[k].issues # <<>>

\* the same property for the categories other than dead code
OtherFailuresHaveIssues == ListedFailuresHaveIssues(AllCategories \ {"deadCode"})


\* the per-file pass has produced its results
PerFileDone ==
  \/ rvPc \in {"join", "knipMerge", "jscpdMerge", "report", "exit"}
  \/ rvPc = "exited" /\ versionsEqual(rvIn.versions.project, rvIn.versions.review)

\* the result of analyzer a in r is an empty-violation PASS
DegradedToPass(r, a) ==
  CASE a = "lines" -> r.size.lines = 0 /\ r.size.status = "PASS"
    [] a = "comments" ->
         r.comments.count = 0 /\ r.comments.violations = <<>> /\ r.comments.status = "PASS"
    [] a = "react" -> r.react.issues = <<>>
    [] a = "console" ->
         r.consoleErrors.count = 0 /\ r.consoleErrors.violations = <<>>
           /\ r.consoleErrors.status = "PASS"
    [] a = "typescript" -> r.typescript.details = <<>> /\ r.typescript.status = "PASS"
    [] a = "fallback" ->
         r.fallbackData.count = 0 /\ r.fallbackData.violations = <<>>
           /\ r.fallbackData.status = "PASS"

\* the result of analyzer a in r holds the findings of the file's content c
ComputedFrom(r, a, c, limit) ==
  CASE a = "lines" -> r.size.lines = c.lines /\ r.size.status = Status(c.lines > limit)
    [] a = "comments" ->
         r.comments.violations = c.commentLines
           /\ r.comments.status = Status(c.commentLines # <<>>)
    [] a = "react" -> r.react.issues = c.reactIssues
    [] a = "console" ->
         r.consoleErrors.violations = c.consoleLines
           /\ r.consoleErrors.status = Status(c.consoleLines # <<>>)
    [] a = "typescript" ->
         r.typescript.details = c.untypedFunctions
           /\ r.typescript.status = Status(c.untypedFunctions # <<>>)
    [] a = "fallback" ->
         r.fallbackData.violations = c.fallbackLines
           /\ r.fallbackData.status = Status(c.fallbackLines # <<>>)

\* C19: when a heuristic analyzer (line count, comments, React usage, console,
\* missing return type, fallback) raises an exception inside its body for a
\* file, that file's result for the analyzer is an empty-violation PASS, the
\* file's other heuristic categories hold the findings of its content, and
\* every target file has its result.
C19_AnalyzerExceptionDegradesToPass ==
  PerFileDone =>
    /\ Len(rvResults) = Len(rvIn.files)
    /\ \A i \in 1..Len(rvResults) :
         LET r == rvResults[i]
             c == rvIn.contents[r.filePath]
             limit == FILE_SIZE_LIMITS[getFileType(r.filePath)]
         IN /\ r.filePath = AbsPath(rvIn.files[i])
            /\ \A a \in Analyzers :
                 IF a \in c.raises THEN DegradedToPass(r, a) ELSE ComputedFrom(r, a, c, limit)

\* two target files, the first with a console.error line on which
\* analyzeConsoleErrors raises: its console category passes, its other
\* categories fail, and the second file has its result
C19_Witness ==
  /\ PerFileDone
  /\ Len(rvResults) = 2
  /\ rvIn.contents[rvResults[1].filePath].raises = {"console"}
  /\ rvIn.contents[rvResults[1].filePath].consoleLines # <<>>
  /\ rvResults[1].consoleErrors.status = "PASS"
  /\ rvResults[1].comments.status = "FAIL"
  /\ rvResults[1].fallbackData.status = "FAIL"
  /\ rvResults[2].relPath = rvIn.files[2]


\* the invocations whose subprocess never exits and is never killed
Hung ==
  {t \in ToolNames : rvTools # <<>> /\ rvTools[t].state = "hung"}
    \cup (IF rvPc = "probeAwait" THEN {"projectTscVersion"} ELSE {})

\* C20: every subprocess invocation carries a timeout, so every run
\* terminates, also when a subprocess never exits.
C20_RunTerminatesDespiteHang == <>(rvPc = "exited")

\* a lint subprocess that was killed by its timeout is taken as a failed
\* batch, once, and the run goes on
LintTimeoutIsFailure ==
  (rvLint # <<>> /\ \E k \in 1..Len(rvLint.outs) : rvLint.outs[k] = KilledByTimeout)
    => /\ rvLint.threw
       /\ rvLint.outs[Len(rvLint.outs)] = KilledByTimeout
       /\ Len(SelectSeq(rvLint.outs, LAMBDA o : o = KilledByTimeout)) = 1


\* ------------------------------------------ claims C21..C30
\* the merge phase has begun: the compiler attach has run
MergeBegun == rvPc \in {"knipMerge", "jscpdMerge", "report", "exit"} \/ Reported

\* the per-file pass is about to run or has run
PerFileReached == rvPc = "perFile" \/ PerFileDone

\* the repo-wide subprocesses a run starts: the lint gate only when the
\* project has an ESLint configuration
RepoInvocations ==
  {"knip", "jscpd", "tsc", "tscProject"}
    \cup (IF rvIn.hasProjectEslint THEN {"eslintRepo"} ELSE {})

\* C21: the repo-wide invocations are all started before the per-file pass,
\* the per-file results carry no merged record while main still waits for the
\* tools, and the merge phase begins only when the per-file pass has produced
\* a result for every target file and all five repo-wide promises are
\* fulfilled.
C21_MergeAfterPerFileAndTools ==
  /\ PerFileReached => RepoInvocations \subseteq rvStarted
  /\ rvPc \in {"lintAwait", "perFile", "join"} =>
       \A i \in 1..Len(rvResults) :
         /\ ~Has(rvResults[i], "typescriptCompiler")
         /\ ~Has(rvResults[i], "deadCode")
         /\ ~Has(rvResults[i], "duplicates")
  /\ MergeBegun =>
       /\ Len(rvResults) = Len(rvIn.files)
       /\ \A t \in ToolNames : rvTools[t].state = "fulfilled"

\* the per-file pass has finished over two files while one repo-wide tool has
\* already settled and another is still running
C21_Witness ==
  /\ rvPc = "join"
  /\ Len(rvResults) = 2
  /\ rvTools["knip"].state = "fulfilled"
  /\ rvTools["tsc"].state = "pending"


\* ------------------------------------------- file reads of one run
\* files of one run and disk changes by other processes during it
MaxFsFiles == 2
MaxDiskChanges == 1

\* what fs.readFileSync finds at a path: no file, or its text (with zero, one
\* or two occurrences of the exported type name Props)
ENOENT == NoFile
FileText(text) == [exists |-> TRUE, text |-> text]
FsTexts == {"", "export type Props = {}", "export type Props = {}; const p: Props = {}"}
DiskEntries == {ENOENT} \cup {FileText(t) : t \in FsTexts}

\* the analyzers of the per-file mapper that read the file, in call order
AnalyzerOrder == <<"lines", "comments", "react", "console", "typescript", "fallback">>

\* Map.set on _fileContentCache
CacheSet(cache, filePath, content) == (filePath :> content) @@ cache

\* readFileCached: the cached value if the key is present, else the text on
\* disk (or '' when the read throws), stored under the key
readFileCached(cache, disk, filePath) ==
  IF filePath \in DOMAIN cache
    THEN [value |-> cache[filePath], cache |-> cache]
    ELSE IF disk[filePath].exists
      THEN [value |-> disk[filePath].text,
            cache |-> CacheSet(cache, filePath, disk[filePath].text)]
      ELSE [value |-> "", cache |-> CacheSet(cache, filePath, "")]

\* readFileSmart: straight from disk when CODE_REVIEW_CACHE_FILES is '0'
readFileSmart(env, cache, disk, filePath) ==
  IF env = "0"
    THEN [value |-> IF disk[filePath].exists THEN disk[filePath].text ELSE "",
          cache |-> cache]
    ELSE readFileCached(cache, disk, filePath)

\* the worker of applyKnipToResults reads path.join(ROOT_DIR, fileRel) with
\* fs.readFileSync, '' when the read throws
KnipWorkerRead(disk, fileRel) ==
  IF disk[AbsPath(fileRel)].exists THEN disk[AbsPath(fileRel)].text ELSE ""

FsPaths == {AbsPath(fsFiles[i]) : i \in 1..Len(fsFiles)}

\* the subsequence of s at the indices in keep
Keep(s, keep) == SelectSeq(s, LAMBDA x : x \in keep)

InitFs ==
  /\ IdleLimiter
  /\ IdleEslint
  /\ IdleReview
  /\ IdleRf
  /\ IdleCa
  /\ fsEnv \in {"unset", "0"}
  /\ \E n \in 1..MaxFsFiles : fsFiles = SubSeq(FilePool, 1, n)
  /\ \E keep \in SUBSET FsPaths :
       fsKnip = Keep(fsFiles, {f \in {fsFiles[i] : i \in 1..Len(fsFiles)} : AbsPath(f) \in keep})
  /\ fsDisk \in [FsPaths -> DiskEntries]
  /\ fsCache = <<>>
  /\ fsChanges = 0
  /\ fsPc = [phase |-> "perFile", file |-> 1, step |-> 1]
  /\ fsSeen = [p \in FsPaths |-> <<>>]
  /\ fsAutofix = NoAutofix
  /\ fsOrig = <<>>
  /\ fsToolSeen = <<>>

\* where the run goes after the last analyzer of the last file, and after
\* the last file of the worker
AfterPerFile ==
  IF fsKnip = <<>> THEN [phase |-> "done"] ELSE [phase |-> "merge", file |-> 1]

\* one analyzer of the mapper reads its file
FsAnalyzerRead ==
  /\ fsPc.phase = "perFile"
  /\ LET filePath == AbsPath(fsFiles[fsPc.file])
         r == readFileSmart(fsEnv, fsCache, fsDisk, filePath)
     IN /\ fsCache' = r.cache
        /\ fsSeen' = [fsSeen EXCEPT ![filePath] =
             Append(@, [reader |-> AnalyzerOrder[fsPc.step], content |-> r.value])]
  /\ fsPc' = IF fsPc.step < Len(AnalyzerOrder)
               THEN [fsPc EXCEPT !.step = @ + 1]
               ELSE IF fsPc.file < Len(fsFiles)
                 THEN [phase |-> "perFile", file |-> fsPc.file + 1, step |-> 1]
                 ELSE AfterPerFile
  /\ UNCHANGED <<fsEnv, fsFiles, fsKnip, fsDisk, fsChanges, fsAutofix, fsOrig, fsToolSeen>>
  /\ UNCHANGED <<limVars, ebVars, rvVars, rfVars, caVars>>

\* the occurrence scan of the dead-code merge reads one candidate file
FsKnipScan ==
  /\ fsPc.phase = "merge"
  /\ LET fileRel == fsKnip[fsPc.file]
     IN fsSeen' = [fsSeen EXCEPT ![AbsPath(fileRel)] =
          Append(@, [reader |-> "knip", content |-> KnipWorkerRead(fsDisk, fileRel)])]
  /\ fsPc' = IF fsPc.file < Len(fsKnip)
               THEN [fsPc EXCEPT !.file = @ + 1]
               ELSE [phase |-> "done"]
  /\ UNCHANGED <<fsEnv, fsFiles, fsKnip, fsDisk, fsCache, fsChanges, fsAutofix, fsOrig, fsToolSeen>>
  /\ UNCHANGED <<limVars, ebVars, rvVars, rfVars, caVars>>

\* another process rewrites, creates or removes a file during the run
FsDiskChange(filePath, entry) ==
  /\ fsPc.phase \in {"perFile", "merge"}
  /\ fsChanges < MaxDiskChanges
  /\ entry # fsDisk[filePath]
  /\ fsDisk' = [fsDisk EXCEPT ![filePath] = entry]
  /\ fsChanges' = fsChanges + 1
  /\ UNCHANGED <<fsEnv, fsFiles, fsKnip, fsCache, fsPc, fsSeen, fsAutofix, fsOrig, fsToolSeen>>
  /\ UNCHANGED <<limVars, ebVars, rvVars, rfVars, caVars>>

NextFs ==
  \/ FsAnalyzerRead
  \/ FsKnipScan
  \/ \E filePath \in FsPaths, entry \in DiskEntries : FsDiskChange(filePath, entry)

SpecFs == InitFs /\ [][NextFs]_vars

\* the contents observed for a path so far
SeenContents(filePath) ==
  {fsSeen[filePath][i].content : i \in 1..Len(fsSeen[filePath])}

\* C22: within one run every analyzer and the dead-code occurrence scan
\* observe the same content for a file, even if the file changes on disk
\* during the run.
C22_OneContentPerFile ==
  \A filePath \in DOMAIN fsSeen : Cardinality(SeenContents(filePath)) <= 1

\* once a path is in the cache its value never changes
CacheIsWriteOnce ==
  [][\A filePath \in DOMAIN fsCache :
       filePath \in DOMAIN fsCache' /\ fsCache'[filePath] = fsCache[filePath]]_vars

\* the statement for runs that use the cache: refuted too, by the direct
\* read of the dead-code worker
AllAgreeWhenCached == fsEnv # "0" => C22_OneContentPerFile

\* with the cache in use, the analyzers of one run agree on a file's content
AnalyzersAgreeWhenCached ==
  fsEnv # "0" =>
    \A filePath \in DOMAIN fsSeen :
      Cardinality({fsSeen[filePath][i].content :
        i \in {j \in 1..Len(fsSeen[filePath]) : fsSeen[filePath][j].reader # "knip"}}) <= 1


\* ------------------------------------------------- the report file
\* JSON.stringify(data, null, 2) + '\n' of a payload, by its summary status
Stringify(data) ==
  "{\n  \"summary\": {\n    \"status\": \"" \o data.summary.status \o "\"\n  }\n}\n"

ReportPayloads == {[summary |-> [status |-> st]] : st \in {"pass", "fail"}}

\* the texts that are a complete report
CompleteReports == {Stringify(data) : data \in ReportPayloads}

FileOf(text) == [exists |-> TRUE, text |-> text]

\* main reaches line 962 with its payload; the report of an earlier run, if
\* any, is at RESULTS_FILE
InitRf ==
  /\ IdleLimiter
  /\ IdleEslint
  /\ IdleReview
  /\ IdleFs
  /\ IdleCa
  /\ rfData \in ReportPayloads
  /\ rfFile \in {NoFile} \cup {FileOf(t) : t \in CompleteReports}
  /\ rfPc = "writeJson"
  /\ rfCount = 0
  /\ rfRead = rfFile

\* fs.writeFileSync opens the path with flag 'w': created or truncated
RfOpen ==
  /\ rfPc = "writeJson"
  /\ rfFile' = FileOf("")
  /\ rfPc' = "writing"
  /\ rfCount' = rfCount + 1
  /\ UNCHANGED <<rfData, rfRead>>
  /\ UNCHANGED <<limVars, ebVars, rvVars, fsVars, caVars>>

\* one write call of the loop in writeFileSync: the next n bytes of the text
RfWrite(n) ==
  /\ rfPc = "writing"
  /\ LET text == Stringify(rfData)
         done == Len(rfFile.text)
     IN /\ done + n <= Len(text)
        /\ rfFile' = FileOf(SubSeq(text, 1, done + n))
  /\ UNCHANGED <<rfData, rfPc, rfCount, rfRead>>
  /\ UNCHANGED <<limVars, ebVars, rvVars, fsVars, caVars>>

\* all bytes are written: the file is closed and writeJson returns
RfClose ==
  /\ rfPc = "writing"
  /\ rfFile.text = Stringify(rfData)
  /\ rfPc' = "written"
  /\ UNCHANGED <<rfData, rfFile, rfCount, rfRead>>
  /\ UNCHANGED <<limVars, ebVars, rvVars, fsVars, caVars>>

\* another process reads the report path
RfReaderReads ==
  /\ rfRead' = rfFile
  /\ UNCHANGED <<rfData, rfFile, rfPc, rfCount>>
  /\ UNCHANGED <<limVars, ebVars, rvVars, fsVars, caVars>>

NextRf ==
  \/ RfOpen
  \/ \E n \in 1..Len(Stringify(rfData)) : RfWrite(n)
  \/ RfClose
  \/ RfReaderReads

SpecRf == InitRf /\ [][NextRf]_vars

\* C23: the report file is replaced atomically: a concurrent reader of the
\* report path observes either the complete previous report or the complete
\* new report, never a partially written one.
C23_ReaderSeesCompleteReport ==
  rfRead.exists => rfRead.text \in CompleteReports

\* the report path is opened for writing once per run
ReportWrittenOnce == rfCount <= 1 /\ (rfPc = "written" => rfCount = 1)


\* the output lines of a compiler run that are not empty
NonEmptyLines(o) == SelectSeq(o.lines, LAMBDA l : l.kind # "blank")

CompilerRuns == {"tsc", "tscProject"}

\* C24: when the compiler run exits non-zero, every non-empty output line is
\* counted as a diagnostic (an unknown one when it matches no supported
\* format), so a failed run with non-empty output yields totalErrors > 0.
C24_FailedCompilerRunCountsEveryLine ==
  \A t \in CompilerRuns :
    (rvTools # <<>> /\ rvTools[t].state = "fulfilled" /\ rvTools[t].out.exit # 0) =>
      LET shown == NonEmptyLines(rvTools[t].out)
      IN /\ rvTools[t].data.totalErrors = Len(shown)
         /\ shown # <<>> => rvTools[t].data.totalErrors > 0

\* a line that holds `error TS<n>` in no supported format is kept, as one
\* UNKNOWN diagnostic under __global__
UnmatchedErrorLineIsCounted ==
  \A t \in CompilerRuns :
    (rvTools # <<>> /\ rvTools[t].state = "fulfilled" /\ rvTools[t].out.exit # 0
       /\ \E k \in 1..Len(rvTools[t].out.lines) :
            rvTools[t].out.lines[k].kind = "unmatched") =>
      /\ rvTools[t].data.totalErrors > 0
      /\ \E k \in 1..Len(rvTools[t].data.byFile["__global__"]) :
           rvTools[t].data.byFile["__global__"][k].code = "UNKNOWN"


\* a second application of the two reconciliations to the merged results,
\* with the same tool outputs
KnipAgain == applyKnipToResults(rvResults, rvTools["knip"].data)
JscpdAgain == applyJscpdToResults(rvResults, rvTools["jscpd"].data)

\* C25: both reconciliations are idempotent: applied again to the merged
\* result set with the same raw tool outputs they leave every file's deadCode
\* and duplicates records and the returned summaries unchanged.
C25_ReconciliationsAreIdempotent ==
  Merged =>
    /\ KnipAgain.results = rvResults
    /\ KnipAgain.summary = rvAgg.knip.summary
    /\ KnipAgain.details = rvAgg.knip.details
    /\ JscpdAgain.results = rvResults
    /\ JscpdAgain.summary = rvAgg.jscpd.summary
    /\ applyJscpdToResults(KnipAgain.results, rvTools["jscpd"].data).results = rvResults

\* a merged run where the second application has something to redo: the
\* first analyzed file is pre-marked as an unused file with no issue entry of
\* its own, and has a duplicate segment
C25_Witness ==
  /\ Merged
  /\ Len(rvResults) >= 1
  /\ Has(rvResults[1].deadCode, "unusedFile")
  /\ rvResults[1].deadCode.recommendations = <<DelGuidance>>
  /\ rvResults[1].duplicates.count > 0


\* the console summary shows PASS for the files, PASS for the repo and the
\* 'Report written' footer
SummaryShowsPass ==
  /\ rvReport.console.perFileStatus = "PASS"
  /\ rvReport.console.repoStatus = "PASS"
  /\ rvReport.console.footer = "Report written"

\* C26: the console summary shows per-file status PASS and repo status PASS
\* (and the 'Report written' footer) if and only if the emitted report's
\* summary.status is "pass".
C26_SummaryAgreesWithReport ==
  Reported => (SummaryShowsPass <=> rvReport.payload.summary.status = "pass")

\* the per-file line of the summary does follow the per-file verdict
PerFileLineAgrees ==
  Reported => (rvReport.console.perFileStatus = "FAIL" <=> perFileViolation(rvResults))

\* a console FAIL is never shown for a report that passes
SummaryFailImpliesReportFail ==
  Reported => (~SummaryShowsPass => rvReport.payload.summary.status = "fail")


\* ------------------------------------- the comment analyzer, line by line
MaxLines == 3

\* String.prototype.startsWith and endsWith
StartsWith(s, prefix) == Len(s) >= Len(prefix) /\ SubSeq(s, 1, Len(prefix)) = prefix
EndsWith(s, suffix) ==
  Len(s) >= Len(suffix) /\ SubSeq(s, Len(s) - Len(suffix) + 1, Len(s)) = suffix

\* String.prototype.trim, for blanks
RECURSIVE Trim(_)
Trim(s) ==
  IF StartsWith(s, " ") THEN Trim(SubSeq(s, 2, Len(s)))
  ELSE IF EndsWith(s, " ") THEN Trim(SubSeq(s, 1, Len(s) - 1))
  ELSE s

\* lines of a source file
LinePool ==
  {"/** doc */", "/**", "/* note */", " * text", " */", "const x = 1;",
   "// todo", "run(); /* tail"}

\* one iteration of the loop of analyzeComments on the line at lineNum
CommentStep(st, raw, lineNum) ==
  LET line == Trim(raw)
      hit(type) == Append(st.violations, [type |-> type, line |-> lineNum, content |-> line])
  IN IF StartsWith(line, "/**")
       THEN [st EXCEPT !.inJsDoc = TRUE, !.violations = hit("jsdoc")]
     ELSE IF StartsWith(line, "/*")
       THEN [st EXCEPT !.inMultiLine = TRUE, !.violations = hit("multiline")]
     ELSE IF EndsWith(line, "*/")
       THEN [st EXCEPT !.inJsDoc = FALSE, !.inMultiLine = FALSE]
     ELSE IF st.inJsDoc \/ st.inMultiLine
       THEN [st EXCEPT !.violations = hit(IF st.inJsDoc THEN "jsdoc" ELSE "multiline")]
     ELSE IF StartsWith(line, "//")
       THEN [st EXCEPT !.violations = hit("inline")]
     ELSE st

InitCa ==
  /\ IdleLimiter
  /\ IdleEslint
  /\ IdleReview
  /\ IdleFs
  /\ IdleRf
  /\ \E n \in 0..MaxLines : caLines \in [1..n -> LinePool]
  /\ caPos = 1
  /\ caInJsDoc = FALSE
  /\ caInMultiLine = FALSE
  /\ caViolations = <<>>

\* the body of `for (let i = 0; i < lines.length; i++)`
CaIterate ==
  /\ caPos >= 1
  /\ caPos <= Len(caLines)
  /\ LET st == CommentStep([inJsDoc |-> caInJsDoc, inMultiLine |-> caInMultiLine,
                            violations |-> caViolations], caLines[caPos], caPos)
     IN /\ caInJsDoc' = st.inJsDoc
        /\ caInMultiLine' = st.inMultiLine
        /\ caViolations' = st.violations
  /\ caPos' = caPos + 1
  /\ UNCHANGED caLines
  /\ UNCHANGED <<limVars, ebVars, rvVars, fsVars, rfVars>>

\* return violations
CaReturn ==
  /\ caPos = Len(caLines) + 1
  /\ caPos' = 0
  /\ UNCHANGED <<caLines, caInJsDoc, caInMultiLine, caViolations>>
  /\ UNCHANGED <<limVars, ebVars, rvVars, fsVars, rfVars>>

NextCa == CaIterate \/ CaReturn

SpecCa == InitCa /\ [][NextCa]_vars

\* the lexical state after the text from position pos of a line: inside a
\* block comment or not
RECURSIVE ScanLine(_, _, _)
ScanLine(text, pos, inside) ==
  IF pos + 1 > Len(text) THEN inside
  ELSE LET two == SubSeq(text, pos, pos + 1)
       IN IF ~inside /\ two = "//" THEN FALSE
          ELSE IF ~inside /\ two = "/*" THEN ScanLine(text, pos + 2, TRUE)
          ELSE IF inside /\ two = "*/" THEN ScanLine(text, pos + 2, FALSE)
          ELSE ScanLine(text, pos + 1, inside)

\* a block comment is open before line i of the file
RECURSIVE InsideBefore(_)
InsideBefore(i) ==
  IF i <= 1 THEN FALSE ELSE ScanLine(caLines[i - 1], 1, InsideBefore(i - 1))

\* line i starts a block comment
OpensBlock(i) == ~InsideBefore(i) /\ StartsWith(Trim(caLines[i]), "/*")

\* line i lies strictly inside a block comment that is still open
Enclosed(i) == InsideBefore(i) /\ ScanLine(caLines[i], 1, TRUE)

ReportedAsBlock(i) ==
  \E k \in 1..Len(caViolations) :
    caViolations[k].line = i /\ caViolations[k].type \in {"jsdoc", "multiline"}

\* the lines the loop has been through
Analyzed == IF caPos = 0 THEN 1..Len(caLines) ELSE 1..(caPos - 1)

\* C27: a line is reported as a jsdoc/multiline violation only if it opens a
\* block comment or lies strictly inside a block comment that is still open
\* (so code lines after a comment opened and closed on one line are not
\* reported), and every line enclosed by an open span is reported.
C27_BlockSpansAreTracked ==
  \A i \in Analyzed :
    /\ ReportedAsBlock(i) => (OpensBlock(i) \/ Enclosed(i))
    /\ Enclosed(i) => ReportedAsBlock(i)

\* the half of the statement that the loop does meet when every block
\* comment starts at the beginning of a line
EnclosedLinesAreReported ==
  (\A i \in 1..Len(caLines) : caLines[i] # "run(); /* tail") =>
    \A i \in Analyzed : Enclosed(i) => ReportedAsBlock(i)


\* the mappers were started in submission order, each at most once
StartedInFifoOrder == \A k \in 1..Len(startOrder) : startOrder[k] = k

\* a task waits in the queue only while every slot is taken
NoIdleSlotWhileQueued == queue # <<>> => active >= concurrency

\* C28: for every bound N >= 1 and every finite list of items whose mappers
\* each eventually settle, every item's mapper is started exactly once, in
\* submission (FIFO) order, no queued task is left unstarted once a slot
\* frees up, and mapLimit eventually settles.
C28_EveryItemStartedAndSettles ==
  /\ [](StartedInFifoOrder /\ NoIdleSlotWhileQueued)
  /\ <>(Len(startOrder) = Len(items))
  /\ <>(caller.kind # "pending")

\* mapLimit has returned for the largest list under bound 1, after two tasks
\* waited in the queue for the slot
C28_Witness ==
  /\ caller.kind = "value"
  /\ concurrency = 1
  /\ Len(items) = MaxItems
  /\ Len(startOrder) = MaxItems
  /\ StartedInFifoOrder


\* the analyzed files the dead-code detector lists as wholly unused
UnusedAnalyzedFiles ==
  LET knipData == rvTools["knip"].data
      files == IF Has(knipData, "files") THEN knipData.files ELSE <<>>
  IN {i \in 1..Len(rvResults) :
        \E k \in 1..Len(files) : toRepoRelative(files[k]) = rvResults[i].relPath}

\* C29: after applyKnipToResults every analyzed file that the dead-code
\* detector lists as a wholly unused file has deadCode.status FAIL and
\* deadCode.unusedFile true, whatever issue entry the detector also reports
\* for that file.
C29_UnusedFileFails ==
  KnipMerged =>
    \A i \in UnusedAnalyzedFiles :
      /\ Has(rvResults[i].deadCode, "unusedFile")
      /\ rvResults[i].deadCode.unusedFile
      /\ rvResults[i].deadCode.status = "FAIL"

\* the unused-file flag itself survives every issue entry
UnusedFileFlagIsKept ==
  KnipMerged =>
    \A i \in UnusedAnalyzedFiles :
      Has(rvResults[i].deadCode, "unusedFile") /\ rvResults[i].deadCode.unusedFile

\* ------------------------------------------------------------- autofix
\* the character at position pos of a text ("" past its end)
CharAt(text, pos) == IF pos >= 1 /\ pos <= Len(text) THEN SubSeq(text, pos, pos) ELSE ""

\* text holds needle at position pos
HasAt(text, needle, pos) ==
  pos >= 1 /\ pos + Len(needle) - 1 <= Len(text)
    /\ SubSeq(text, pos, pos + Len(needle) - 1) = needle

\* the first position >= pos where needle occurs, 0 if there is none
RECURSIVE Find(_, _, _)
Find(text, needle, pos) ==
  IF pos + Len(needle) - 1 > Len(text) THEN 0
  ELSE IF HasAt(text, needle, pos) THEN pos
  ELSE Find(text, needle, pos + 1)

\* \s* from pos: the first position that holds no blank and no newline
RECURSIVE SkipWs(_, _)
SkipWs(text, pos) ==
  IF CharAt(text, pos) \in {" ", "\n"} THEN SkipWs(text, pos + 1) ELSE pos

\* where the line that holds pos ends: its newline, or one past the text
LineEnd(text, pos) ==
  LET i == Find(text, "\n", pos) IN IF i = 0 THEN Len(text) + 1 ELSE i

\* the start of the line after the one that holds pos, 0 if there is none
NextLineStart(text, pos) ==
  LET i == Find(text, "\n", pos) IN IF i = 0 THEN 0 ELSE i + 1

\* the text without the positions from..(to - 1)
Cut(text, from, to) == SubSeq(text, 1, from - 1) \o SubSeq(text, to, Len(text))

\* replace(/<opener>[\s\S]*?\*\//g, ''), scanning from pos
RECURSIVE RemoveBlocks(_, _, _)
RemoveBlocks(text, opener, pos) ==
  LET i == Find(text, opener, pos)
      j == IF i = 0 THEN 0 ELSE Find(text, "*/", i + Len(opener))
  IN IF j = 0 THEN text ELSE RemoveBlocks(Cut(text, i, j + 2), opener, i)

\* the end of a match of ^\s*\/\/.*$ at line start p, 0 if there is none
MatchLineComment(text, p) ==
  LET q == SkipWs(text, p)
  IN IF HasAt(text, "//", q) THEN LineEnd(text, q) ELSE 0

\* replace(/^\s*\/\/.*$/gm, ''), from line start p
RECURSIVE RemoveLineComments(_, _)
RemoveLineComments(text, p) ==
  IF p = 0 \/ p > Len(text) THEN text
  ELSE LET e == MatchLineComment(text, p)
       IN IF e = 0 THEN RemoveLineComments(text, NextLineStart(text, p))
          ELSE LET rest == Cut(text, p, e)
               IN RemoveLineComments(rest, NextLineStart(rest, p))

\* the number of newlines at the positions from..(to - 1)
RECURSIVE Newlines(_, _, _)
Newlines(text, from, to) ==
  IF from >= to THEN 0
  ELSE (IF CharAt(text, from) = "\n" THEN 1 ELSE 0) + Newlines(text, from + 1, to)

\* the last position in from..(to - 1) that holds a newline, 0 if none does
RECURSIVE LastNewline(_, _, _)
LastNewline(text, from, to) ==
  IF to <= from THEN 0
  ELSE IF CharAt(text, to - 1) = "\n" THEN to - 1
  ELSE LastNewline(text, from, to - 1)

\* replace(/\n\s*\n\s*\n/g, '\n\n'), scanning from pos
RECURSIVE CollapseBlankLines(_, _)
CollapseBlankLines(text, pos) ==
  LET i == Find(text, "\n", pos)
      s == SkipWs(text, i)
  IN IF i = 0 THEN text
     ELSE IF Newlines(text, i, s) >= 3
       THEN CollapseBlankLines(
              SubSeq(text, 1, i - 1) \o "\n\n"
                \o SubSeq(text, LastNewline(text, i, s) + 1, Len(text)), i + 2)
     ELSE CollapseBlankLines(text, s)

\* stripComments(content).content
stripComments(content) ==
  CollapseBlankLines(
    RemoveLineComments(RemoveBlocks(RemoveBlocks(content, "/**", 1), "/*", 1), 1), 1)

\* the end of \s*$ tried from position from: the furthest end of line within
\* the blanks that follow, 0 if the line goes on
MatchLineTail(text, from) ==
  LET s == SkipWs(text, from)
  IN IF s = Len(text) + 1 THEN s ELSE LastNewline(text, from, s)

\* the end of a match of ^\s*console\.<method>\([^)]*\);?(?:\s*\/\/.*)?\s*$
\* at line start p, 0 if there is none
MatchConsole(text, method, p) ==
  LET call == "console." \o method \o "("
      q == SkipWs(text, p)
      close == IF HasAt(text, call, q) THEN Find(text, ")", q + Len(call)) ELSE 0
      after == IF HasAt(text, ";", close + 1) THEN close + 2 ELSE close + 1
      r == SkipWs(text, after)
  IN IF close = 0 THEN 0
     ELSE IF HasAt(text, "//", r) THEN MatchLineTail(text, LineEnd(text, r))
     ELSE MatchLineTail(text, after)

\* replace(/^\s*console\.<method>\(...$/gm, ''), from line start p
RECURSIVE RemoveConsole(_, _, _)
RemoveConsole(text, method, p) ==
  IF p = 0 \/ p > Len(text) THEN text
  ELSE LET e == MatchConsole(text, method, p)
       IN IF e = 0 THEN RemoveConsole(text, method, NextLineStart(text, p))
          ELSE LET rest == Cut(text, p, e)
               IN RemoveConsole(rest, method,
                    IF CharAt(text, e - 1) = "\n" THEN p ELSE NextLineStart(rest, p))

\* stripDebugConsoles(content).content: log, debug and info calls go, warn
\* and error stay
stripDebugConsoles(content) ==
  CollapseBlankLines(
    RemoveConsole(RemoveConsole(RemoveConsole(content, "log", 1), "debug", 1), "info", 1), 1)

\* the texts of the target files at the start of a run
AutofixTexts ==
  {"", "export type Props = {}",
   "/** doc */\n// note\nconsole.log(1);\nexport type Props = {}"}

\* stripComments then stripDebugConsoles, tabulated over the texts a target
\* file can hold when its mapper reads it
StrippedText == [t \in AutofixTexts |-> stripDebugConsoles(stripComments(t))]

\* an autofix mapper that reads through readFileSmart
AutofixReadSmart(env, cache, disk, filePath) ==
  readFileSmart(env, cache, disk, filePath)

\* the mapper of applyAutofix reads the file with fs.readFileSync
AutofixRead(env, cache, disk, filePath) ==
  [value |-> disk[filePath].text, cache |-> cache]

\* main enters the autofix step; every target file exists (absFiles was
\* filtered with fs.existsSync)
InitAutofix ==
  /\ IdleLimiter
  /\ IdleEslint
  /\ IdleReview
  /\ IdleRf
  /\ IdleCa
  /\ fsEnv \in {"unset", "0"}
  /\ \E n \in 1..MaxFsFiles : fsFiles = SubSeq(FilePool, 1, n)
  /\ \E keep \in SUBSET FsPaths :
       fsKnip = Keep(fsFiles, {f \in {fsFiles[i] : i \in 1..Len(fsFiles)} : AbsPath(f) \in keep})
  /\ fsDisk \in [FsPaths -> {FileText(t) : t \in AutofixTexts}]
  /\ fsCache = <<>>
  /\ fsChanges = 0
  /\ \E enabled \in BOOLEAN :
       /\ fsAutofix = [NoAutofix EXCEPT !.enabled = enabled]
       /\ fsPc = IF enabled THEN [phase |-> "autofix", file |-> 1] ELSE [phase |-> "launch"]
  /\ fsSeen = [p \in FsPaths |-> <<>>]
  /\ fsOrig = fsDisk
  /\ fsToolSeen = <<>>

\* the mapper of applyAutofix for one file: strip, write back when changed;
\* any exception is counted and swallowed
FsAutofixFile ==
  /\ fsPc.phase = "autofix"
  /\ LET filePath == AbsPath(fsFiles[fsPc.file])
     IN \E outcome \in {"ok", "throws"} :
          IF ~fsDisk[filePath].exists \/ outcome = "throws"
            THEN /\ fsAutofix' = [fsAutofix EXCEPT !.errors = @ + 1]
                 /\ UNCHANGED <<fsDisk, fsCache>>
            ELSE LET r == AutofixRead(fsEnv, fsCache, fsDisk, filePath)
                     original == r.value
                     modified == StrippedText[original]
                 IN /\ fsCache' = r.cache
                    /\ fsDisk' = IF modified # original
                                   THEN [fsDisk EXCEPT ![filePath] = FileText(modified)]
                                   ELSE fsDisk
                    /\ fsAutofix' = [fsAutofix EXCEPT !.fixed = @ \cup {filePath}]
  /\ fsPc' = IF fsPc.file < Len(fsFiles)
               THEN [fsPc EXCEPT !.file = @ + 1]
               ELSE [phase |-> "launch"]
  /\ UNCHANGED <<fsEnv, fsFiles, fsKnip, fsChanges, fsSeen, fsOrig, fsToolSeen>>
  /\ UNCHANGED <<limVars, ebVars, rvVars, rfVars, caVars>>

\* the call of applyAutofix throws before a file is touched: main's catch
\* goes on with the analysis
FsAutofixThrows ==
  /\ fsPc = [phase |-> "autofix", file |-> 1]
  /\ fsAutofix' = [fsAutofix EXCEPT !.threw = TRUE]
  /\ fsPc' = [phase |-> "launch"]
  /\ UNCHANGED <<fsEnv, fsFiles, fsKnip, fsDisk, fsCache, fsChanges, fsSeen, fsOrig, fsToolSeen>>
  /\ UNCHANGED <<limVars, ebVars, rvVars, rfVars, caVars>>

\* the five repo-wide invocations are started
FsLaunch ==
  /\ fsPc.phase = "launch"
  /\ fsPc' = [phase |-> "lint", file |-> 1]
  /\ UNCHANGED <<fsEnv, fsFiles, fsKnip, fsDisk, fsCache, fsChanges, fsSeen, fsAutofix,
                 fsOrig, fsToolSeen>>
  /\ UNCHANGED <<limVars, ebVars, rvVars, rfVars, caVars>>

\* a started repo-wide subprocess reads a target file, at any time until the
\* run has joined it
FsToolRead(filePath) ==
  /\ fsPc.phase \in {"lint", "perFile"}
  /\ filePath \notin DOMAIN fsToolSeen
  /\ fsToolSeen' = (filePath :> KnipWorkerRead(fsDisk, toRepoRelative(filePath))) @@ fsToolSeen
  /\ UNCHANGED <<fsEnv, fsFiles, fsKnip, fsDisk, fsCache, fsChanges, fsPc, fsSeen, fsAutofix,
                 fsOrig>>
  /\ UNCHANGED <<limVars, ebVars, rvVars, rfVars, caVars>>

\* the ESLint batch, awaited before the per-file pass, reads one target file
FsLintRead ==
  /\ fsPc.phase = "lint"
  /\ LET fileRel == fsFiles[fsPc.file]
     IN fsSeen' = [fsSeen EXCEPT ![AbsPath(fileRel)] =
          Append(@, [reader |-> "eslint", content |-> KnipWorkerRead(fsDisk, fileRel)])]
  /\ fsPc' = IF fsPc.file < Len(fsFiles)
               THEN [fsPc EXCEPT !.file = @ + 1]
               ELSE [phase |-> "perFile", file |-> 1, step |-> 1]
  /\ UNCHANGED <<fsEnv, fsFiles, fsKnip, fsDisk, fsCache, fsChanges, fsAutofix, fsOrig,
                 fsToolSeen>>
  /\ UNCHANGED <<limVars, ebVars, rvVars, rfVars, caVars>>

\* the steps of main itself
RunStep ==
  \/ FsAutofixFile
  \/ FsAutofixThrows
  \/ FsLaunch
  \/ FsLintRead
  \/ FsAnalyzerRead
  \/ FsKnipScan

NextAutofix ==
  \/ RunStep
  \/ \E filePath \in FsPaths : FsToolRead(filePath)

SpecAutofix == InitAutofix /\ [][NextAutofix]_vars

\* what autofix left at a path: the stripped text where the mapper succeeded,
\* the original text otherwise
PostAutofix(filePath) ==
  IF filePath \in fsAutofix.fixed
    THEN StrippedText[fsOrig[filePath].text]
    ELSE fsOrig[filePath].text

\* C30: autofix has finished with every target file before an analyzer, the
\* lint batch or a repo-wide tool reads a file and before the content cache
\* is first populated, so every reader sees the post-autofix content; and a
\* failure of autofix on a file, or of the whole step, never stops the run.
C30_AutofixBeforeEveryRead ==
  /\ fsPc.phase \in {"autofix", "launch"} =>
       /\ fsCache = <<>>
       /\ fsToolSeen = <<>>
       /\ \A filePath \in FsPaths : fsSeen[filePath] = <<>>
  /\ fsPc.phase # "autofix" /\ fsAutofix.enabled /\ ~fsAutofix.threw =>
       Cardinality(fsAutofix.fixed) + fsAutofix.errors = Len(fsFiles)
  /\ \A filePath \in FsPaths :
       /\ SeenContents(filePath) \subseteq {PostAutofix(filePath)}
       /\ filePath \in DOMAIN fsToolSeen => fsToolSeen[filePath] = PostAutofix(filePath)
       /\ filePath \in DOMAIN fsCache => fsCache[filePath] = PostAutofix(filePath)
  /\ fsPc.phase # "done" => ENABLED RunStep

\* the run is over after autofix failed on the first file and rewrote the
\* second; every analyzer, the lint batch and a repo-wide tool have read the
\* rewritten file
C30_Witness ==
  /\ fsPc.phase = "done"
  /\ Len(fsFiles) = 2
  /\ fsAutofix.errors = 1
  /\ fsAutofix.fixed = {AbsPath(fsFiles[2])}
  /\ fsDisk[AbsPath(fsFiles[2])] # fsOrig[AbsPath(fsFiles[2])]
  /\ Len(fsSeen[AbsPath(fsFiles[1])]) >= 7
  /\ Len(fsSeen[AbsPath(fsFiles[2])]) >= 7
  /\ AbsPath(fsFiles[2]) \in DOMAIN fsToolSeen

====
